---- MODULE Spec2Model ----
(***************************************************************************)
(* A model of the deterministic health-scoring and recommendation engine   *)
(* of the AI life management simulation (simulation/predictor.py), of the  *)
(* records the synthetic data generator hands to it                        *)
(* (simulation/data_generator.py) and of the scenario mutators that        *)
(* rewrite such records (simulation/run_simulation.py); and, statement by  *)
(* statement, of the two threaded services: the ModelManager               *)
(* (src/ai_analysis/model_manager.py) and the DataCollectionModule with    *)
(* its EdgeProcessor (src/data_collection/main.py, edge_computing.py).     *)
(*                                                                         *)
(* Numbers.  Values that stay Python ints (minutes, servings, years) are   *)
(* integers.  Python floats, and the metrics that the scenario mutators    *)
(* turn into floats (mmHg, mg/dL, bpm, kg, cm), are fixed-point integers   *)
(* counting units of 1/Scale: 76.1 is Tenths(761) = 761000.  Every product *)
(* the scoring code forms is exact in this representation for the inputs   *)
(* drawn here (one decimal for bmi, hours, ages, vo2; three decimals for   *)
(* probabilities); a quotient (total/HDL, a mean over 3 or 6 factors) is   *)
(* kept to 1/Scale, rounded down.  Decimal cut points are therefore        *)
(* compared exactly, where the float code compares their binary            *)
(* neighbours.                                                             *)
(***************************************************************************)
EXTENDS Integers, Sequences, FiniteSets, TLC

VARIABLES
    user,       \* the user record handed to the LifePredictor
    now,        \* the last reading of the wall clock (datetime.now())
    life,       \* result of predict_life_expectancy, or None
    bioAge,     \* result of calculate_biological_age, or None
    risks,      \* result of calculate_health_risks, or None
    recs,       \* result of the latest generate_recommendations, or None
    prevRecs,   \* result of the generate_recommendations call before it, or None
    riskIn,     \* argument of _categorize_risk
    catOut,     \* result of _categorize_risk, or None
    absent,     \* the keys that the mapping handed to run_complete_analysis lacks
    analysis,   \* outcome of run_complete_analysis, or None
    rng,        \* state of the random module: the seed and the draws made so far
    before,     \* the record as it was before the latest scenario mutator
    applied,    \* the scenario mutators applied to the record so far
    heap,       \* the dict objects that run_scenario_simulation works on
    scenarioOut,      \* outcome of the latest run_scenario_simulation, or None
    prevScenarioOut,  \* outcome of the run_scenario_simulation before it, or None
    generated,  \* result of generate_health_metrics, or None
    manager,    \* the ModelManager object: max_loaded_models, models, lock
    calls,      \* for each thread, the ModelManager call it is executing
    collector,  \* the DataCollectionModule object and its caller's position
    loops,      \* the position of each _collection_loop thread started so far
    edge        \* the EdgeProcessor object, its health queue and worker thread

vars ==
    <<user, now, life, bioAge, risks, recs, prevRecs, riskIn, catOut, absent, analysis,
      rng, before, applied, heap, scenarioOut, prevScenarioOut, generated,
      manager, calls, collector, loops, edge>>

\* Python's None, for a result that has not been computed
None == [none |-> TRUE]

\* the variables of the life predictor's own functions, and their values
\* before any of them has been called
predictorVars == <<life, bioAge, risks, recs, prevRecs, riskIn, catOut>>

PredictorIdle ==
    /\ life = None
    /\ bioAge = None
    /\ risks = None
    /\ recs = None
    /\ prevRecs = None
    /\ riskIn = 0
    /\ catOut = None

\* the variables of the analysis run, the scenario runner and the generator,
\* and their values while none of these is in use
runVars == <<absent, analysis>>
mutatorVars == <<before, applied>>
scenarioVars == <<heap, scenarioOut, prevScenarioOut>>
managerVars == <<manager, calls>>
collectionVars == <<collector, loops, edge>>
serviceVars == <<manager, calls, collector, loops, edge>>
otherVars == <<absent, analysis, rng, before, applied, heap, scenarioOut,
               prevScenarioOut, generated, manager, calls, collector, loops, edge>>

RunIdle == absent = {} /\ analysis = None
MutatorIdle == before = None /\ applied = <<>>
ScenarioIdle == heap = None /\ scenarioOut = None /\ prevScenarioOut = None
ManagerIdle == manager = None /\ calls = None
CollectionIdle == collector = None /\ loops = None /\ edge = None
ServiceIdle == ManagerIdle /\ CollectionIdle
OtherIdle ==
    /\ RunIdle
    /\ MutatorIdle
    /\ ScenarioIdle
    /\ rng = None
    /\ generated = None
    /\ ServiceIdle

(***************************************************************************)
(* Fixed-point arithmetic                                                  *)
(***************************************************************************)
Scale == 10^4

Num(k) == k * Scale
Tenths(t) == t * (Scale \div 10)
Hundredths(h) == h * (Scale \div 100)
Thousandths(m) == m * (Scale \div 1000)

\* x * y for two fixed-point numbers (split so that no intermediate exceeds 2^31)
Mul(x, y) == ((x \div Scale) * y) + (((x % Scale) * y) \div Scale)

\* a / b for two Python ints, as a fixed-point number
Quot(a, b) == (a * Scale) \div b

\* x / y for two fixed-point numbers (long division in two steps of two digits
\* so that no intermediate exceeds 2^31)
Hundred == 10^2
Div(x, y) ==
    LET r0 == x % y
        r1 == (r0 * Hundred) % y
    IN  (x \div y) * Scale + ((r0 * Hundred) \div y) * Hundred + (r1 * Hundred) \div y

Min(a, b) == IF a < b THEN a ELSE b
Max(a, b) == IF a > b THEN a ELSE b

\* round(x, nd): to the nearest multiple of 10^-nd; an exact decimal tie goes to
\* the even multiple
RoundTo(x, q) ==
    LET lo == (x \div q) * q
        r == x - lo
    IN  IF 2 * r < q THEN lo
        ELSE IF 2 * r > q THEN lo + q
        ELSE IF (lo \div q) % 2 = 0 THEN lo ELSE lo + q

Round1(x) == RoundTo(x, Scale \div 10)
Round2(x) == RoundTo(x, Scale \div 100)

RECURSIVE SumSeq(_)
SumSeq(s) == IF s = <<>> THEN 0 ELSE Head(s) + SumSeq(Tail(s))

\* dict.get(key, default)
Get(table, key, default) == IF key \in DOMAIN table THEN table[key] ELSE default

(***************************************************************************)
(* str.lower() on the labels that occur in user records                    *)
(***************************************************************************)
Lower(s) ==
    CASE s = "Male" -> "male"
      [] s = "Female" -> "female"
      [] s = "Never" -> "never"
      [] s = "Former" -> "former"
      [] s = "Current" -> "current"
      [] s = "None" -> "none"
      [] s = "Rare" -> "rare"
      [] s = "Moderate" -> "moderate"
      [] s = "Frequent" -> "frequent"
      [] s = "Poor" -> "poor"
      [] s = "Fair" -> "fair"
      [] s = "Good" -> "good"
      [] s = "Excellent" -> "excellent"
      [] s = "Standard" -> "standard"
      [] s = "Mediterranean" -> "mediterranean"
      [] s = "Vegetarian" -> "vegetarian"
      [] s = "Vegan" -> "vegan"
      [] s = "Low-carb" -> "low-carb"
      [] s = "Pescatarian" -> "pescatarian"
      [] s = "Rarely" -> "rarely"
      [] s = "Sometimes" -> "sometimes"
      [] s = "Often" -> "often"
      [] s = "Very Frequently" -> "very frequently"
      [] s = "Low" -> "low"
      [] s = "High" -> "high"
      [] s = "Very High" -> "very high"
      [] s = "Walking" -> "walking"
      [] s = "Running" -> "running"
      [] s = "Cycling" -> "cycling"
      [] s = "Swimming" -> "swimming"
      [] s = "Weight Training" -> "weight training"
      [] s = "Yoga" -> "yoga"
      [] s = "Team Sports" -> "team sports"
      [] s = "HIIT" -> "hiit"
      [] s = "Pilates" -> "pilates"
      [] s = "Dancing" -> "dancing"
      [] s = "Unlisted" -> "unlisted"
      [] OTHER -> s

(***************************************************************************)
(* User records.  The layout is that of generate_complete_user_dataset:    *)
(* user_profile, health_metrics, impedance_data, lifestyle_data and        *)
(* genetic_data.  Fields no modelled operation reads (family history, the *)
(* frequency scan, time stamps of the measurements, autoimmune risks) are  *)
(* left out.                                                               *)
(***************************************************************************)
MaleCancerRisks ==
    [colorectal |-> Thousandths(50), breast |-> Thousandths(1),
     prostate |-> Thousandths(70), lung |-> Thousandths(40), skin |-> Thousandths(50)]

FemaleCancerRisks ==
    [colorectal |-> Thousandths(50), breast |-> Thousandths(60),
     prostate |-> 0, lung |-> Thousandths(40), skin |-> Thousandths(50)]

\* the profile of the end-to-end scenario: an obese, hypertensive current smoker
AtRiskUser ==
    [user_profile |->
        [user_id |-> "user_0001", gender |-> "Male", age |-> 50,
         height_cm |-> Num(175), weight_kg |-> Tenths(949), bmi |-> Tenths(310),
         smoking_status |-> "Current", alcohol_frequency |-> "Moderate"],
     health_metrics |->
        [blood_pressure |-> [systolic |-> Num(145), diastolic |-> Num(92)],
         resting_heart_rate |-> Num(78),
         cholesterol |-> [total |-> Num(240), hdl |-> Num(35), ldl |-> Num(170)],
         fasting_glucose |-> Num(110), hba1c |-> Tenths(61), vo2_max |-> Tenths(300),
         body_fat_percentage |-> Tenths(285)],
     impedance_data |->
        [chronological_age |-> 50, estimated_biological_age |-> Tenths(545)],
     lifestyle_data |->
        [exercise |-> [minutes_per_week |-> 20, types |-> <<>>],
         sleep |-> [average_hours |-> Tenths(55), quality |-> "Fair"],
         diet |-> [type |-> "Standard", fruit_veg_servings_daily |-> 2,
                   processed_food_frequency |-> "Often"],
         stress_level |-> "High"],
     genetic_data |->
        [risk_factors |->
            [cardiovascular_disease |-> Thousandths(300),
             type_2_diabetes |-> Thousandths(100),
             cancer |-> MaleCancerRisks,
             neurodegenerative |-> [alzheimers |-> Thousandths(50),
                                    parkinsons |-> Thousandths(20)]]]]

\* a young, fit non-smoker
HealthyUser ==
    [user_profile |->
        [user_id |-> "user_0002", gender |-> "Female", age |-> 28,
         height_cm |-> Num(165), weight_kg |-> Tenths(599), bmi |-> Tenths(220),
         smoking_status |-> "Never", alcohol_frequency |-> "Rare"],
     health_metrics |->
        [blood_pressure |-> [systolic |-> Num(110), diastolic |-> Num(70)],
         resting_heart_rate |-> Num(58),
         cholesterol |-> [total |-> Num(160), hdl |-> Num(60), ldl |-> Num(80)],
         fasting_glucose |-> Num(85), hba1c |-> Tenths(48), vo2_max |-> Tenths(450),
         body_fat_percentage |-> Tenths(250)],
     impedance_data |->
        [chronological_age |-> 28, estimated_biological_age |-> Tenths(240)],
     lifestyle_data |->
        [exercise |-> [minutes_per_week |-> 300, types |-> <<"Yoga", "Weight Training">>],
         sleep |-> [average_hours |-> Tenths(80), quality |-> "Excellent"],
         diet |-> [type |-> "Mediterranean", fruit_veg_servings_daily |-> 5,
                   processed_food_frequency |-> "Rarely"],
         stress_level |-> "Low"],
     genetic_data |->
        [risk_factors |->
            [cardiovascular_disease |-> Thousandths(50),
             type_2_diabetes |-> Thousandths(50),
             cancer |-> FemaleCancerRisks,
             neurodegenerative |-> [alzheimers |-> Thousandths(20),
                                    parkinsons |-> Thousandths(10)]]]]

BaseUsers == {AtRiskUser, HealthyUser}

\* the fields of a record that the inputs vary, in a fixed order
FieldSeq ==
    <<"gender", "age", "bmi", "smoking_status", "alcohol_frequency",
      "systolic", "diastolic", "resting_heart_rate", "total", "hdl",
      "fasting_glucose", "hba1c", "vo2_max", "estimated_biological_age",
      "minutes_per_week", "types", "average_hours", "quality", "diet_type",
      "fruit_veg_servings_daily", "processed_food_frequency", "stress_level",
      "cardiovascular_disease", "type_2_diabetes", "cancer", "alzheimers",
      "parkinsons">>

\* the values each field is drawn from: every bucket of every threshold rule of
\* the scoring code has a value, categorical fields carry the labels the
\* generator emits and, where a record may come from a data file, lower-case
\* spellings
Dom ==
    [gender |-> {"Male", "Female"},
     age |-> {28, 38, 50, 62},
     bmi |-> {Tenths(170), Tenths(220), Tenths(275), Tenths(300), Tenths(310)},
     smoking_status |-> {"Never", "Former", "Current", "current"},
     alcohol_frequency |-> {"None", "Rare", "Moderate", "Frequent"},
     systolic |-> {Num(110), Num(125), Num(135), Num(145)},
     diastolic |-> {Num(70), Num(83), Num(88), Num(92)},
     resting_heart_rate |-> {Num(58), Num(65), Num(78), Num(85), Num(95)},
     total |-> {Num(160), Num(200), Num(240)},
     hdl |-> {Num(35), Num(50), Num(60)},
     fasting_glucose |-> {Num(85), Num(100), Num(110), Num(126)},
     hba1c |-> {Tenths(48), Tenths(56), Tenths(61), Tenths(65)},
     vo2_max |-> {Tenths(250), Tenths(300), Tenths(450)},
     estimated_biological_age |-> {Tenths(200), Tenths(240), Tenths(545), Tenths(700)},
     minutes_per_week |-> {0, 20, 75, 150, 300, 400},
     types |-> {<<>>, <<"Walking">>, <<"Yoga", "Weight Training">>,
                <<"Team Sports", "Dancing", "Yoga", "Pilates">>},
     average_hours |-> {Tenths(55), Tenths(62), Tenths(68), Tenths(72), Tenths(80)},
     quality |-> {"Poor", "Fair", "Good", "Excellent"},
     diet_type |-> {"Standard", "Mediterranean", "Vegan", "Low-carb"},
     fruit_veg_servings_daily |-> {0, 1, 2, 3, 5},
     processed_food_frequency |->
        {"Rarely", "Sometimes", "Often", "Very Frequently", "often", "very frequently"},
     stress_level |-> {"Low", "Moderate", "High", "Very High", "very high"},
     cardiovascular_disease |-> {0, Thousandths(50), Thousandths(300), Thousandths(750), Num(1)},
     type_2_diabetes |-> {0, Thousandths(50), Thousandths(100), Thousandths(500), Num(1)},
     cancer |-> {MaleCancerRisks, FemaleCancerRisks,
                 [colorectal |-> 0, breast |-> 0, prostate |-> 0, lung |-> 0, skin |-> 0],
                 [colorectal |-> Num(1), breast |-> Num(1), prostate |-> Num(1),
                  lung |-> Num(1), skin |-> Num(1)]},
     alzheimers |-> {0, Thousandths(20), Thousandths(50), Num(1)},
     parkinsons |-> {0, Thousandths(10), Thousandths(20), Num(1)}]

GetField(u, f) ==
    CASE f = "gender" -> u.user_profile.gender
      [] f = "age" -> u.user_profile.age
      [] f = "bmi" -> u.user_profile.bmi
      [] f = "smoking_status" -> u.user_profile.smoking_status
      [] f = "alcohol_frequency" -> u.user_profile.alcohol_frequency
      [] f = "systolic" -> u.health_metrics.blood_pressure.systolic
      [] f = "diastolic" -> u.health_metrics.blood_pressure.diastolic
      [] f = "resting_heart_rate" -> u.health_metrics.resting_heart_rate
      [] f = "total" -> u.health_metrics.cholesterol.total
      [] f = "hdl" -> u.health_metrics.cholesterol.hdl
      [] f = "fasting_glucose" -> u.health_metrics.fasting_glucose
      [] f = "hba1c" -> u.health_metrics.hba1c
      [] f = "vo2_max" -> u.health_metrics.vo2_max
      [] f = "estimated_biological_age" -> u.impedance_data.estimated_biological_age
      [] f = "minutes_per_week" -> u.lifestyle_data.exercise.minutes_per_week
      [] f = "types" -> u.lifestyle_data.exercise.types
      [] f = "average_hours" -> u.lifestyle_data.sleep.average_hours
      [] f = "quality" -> u.lifestyle_data.sleep.quality
      [] f = "diet_type" -> u.lifestyle_data.diet.type
      [] f = "fruit_veg_servings_daily" -> u.lifestyle_data.diet.fruit_veg_servings_daily
      [] f = "processed_food_frequency" -> u.lifestyle_data.diet.processed_food_frequency
      [] f = "stress_level" -> u.lifestyle_data.stress_level
      [] f = "cardiovascular_disease" -> u.genetic_data.risk_factors.cardiovascular_disease
      [] f = "type_2_diabetes" -> u.genetic_data.risk_factors.type_2_diabetes
      [] f = "cancer" -> u.genetic_data.risk_factors.cancer
      [] f = "alzheimers" -> u.genetic_data.risk_factors.neurodegenerative.alzheimers
      [] f = "parkinsons" -> u.genetic_data.risk_factors.neurodegenerative.parkinsons

SetField(u, f, v) ==
    CASE f = "gender" -> [u EXCEPT !.user_profile.gender = v]
      [] f = "age" -> [u EXCEPT !.user_profile.age = v]
      [] f = "bmi" -> [u EXCEPT !.user_profile.bmi = v]
      [] f = "smoking_status" -> [u EXCEPT !.user_profile.smoking_status = v]
      [] f = "alcohol_frequency" -> [u EXCEPT !.user_profile.alcohol_frequency = v]
      [] f = "systolic" -> [u EXCEPT !.health_metrics.blood_pressure.systolic = v]
      [] f = "diastolic" -> [u EXCEPT !.health_metrics.blood_pressure.diastolic = v]
      [] f = "resting_heart_rate" -> [u EXCEPT !.health_metrics.resting_heart_rate = v]
      [] f = "total" -> [u EXCEPT !.health_metrics.cholesterol.total = v]
      [] f = "hdl" -> [u EXCEPT !.health_metrics.cholesterol.hdl = v]
      [] f = "fasting_glucose" -> [u EXCEPT !.health_metrics.fasting_glucose = v]
      [] f = "hba1c" -> [u EXCEPT !.health_metrics.hba1c = v]
      [] f = "vo2_max" -> [u EXCEPT !.health_metrics.vo2_max = v]
      [] f = "estimated_biological_age" ->
            [u EXCEPT !.impedance_data.estimated_biological_age = v]
      [] f = "minutes_per_week" -> [u EXCEPT !.lifestyle_data.exercise.minutes_per_week = v]
      [] f = "types" -> [u EXCEPT !.lifestyle_data.exercise.types = v]
      [] f = "average_hours" -> [u EXCEPT !.lifestyle_data.sleep.average_hours = v]
      [] f = "quality" -> [u EXCEPT !.lifestyle_data.sleep.quality = v]
      [] f = "diet_type" -> [u EXCEPT !.lifestyle_data.diet.type = v]
      [] f = "fruit_veg_servings_daily" ->
            [u EXCEPT !.lifestyle_data.diet.fruit_veg_servings_daily = v]
      [] f = "processed_food_frequency" ->
            [u EXCEPT !.lifestyle_data.diet.processed_food_frequency = v]
      [] f = "stress_level" -> [u EXCEPT !.lifestyle_data.stress_level = v]
      [] f = "cardiovascular_disease" ->
            [u EXCEPT !.genetic_data.risk_factors.cardiovascular_disease = v]
      [] f = "type_2_diabetes" -> [u EXCEPT !.genetic_data.risk_factors.type_2_diabetes = v]
      [] f = "cancer" -> [u EXCEPT !.genetic_data.risk_factors.cancer = v]
      [] f = "alzheimers" ->
            [u EXCEPT !.genetic_data.risk_factors.neurodegenerative.alzheimers = v]
      [] f = "parkinsons" ->
            [u EXCEPT !.genetic_data.risk_factors.neurodegenerative.parkinsons = v]

\* the number of fields in which an input record may differ from a base record
MaxVary == 2

\* user is a record that differs from u in at most n of the fields FieldSeq[i..]
RECURSIVE Vary(_, _, _)
Vary(u, n, i) ==
    IF n = 0 \/ i > Len(FieldSeq) THEN user = u
    ELSE \/ Vary(u, n, i + 1)
         \/ \E v \in Dom[FieldSeq[i]] \ {GetField(u, FieldSeq[i])} :
               Vary(SetField(u, FieldSeq[i], v), n - 1, i + 1)

MaxClock == 1
ClockReadings == now .. MaxClock

Init ==
    /\ \E b \in BaseUsers : Vary(b, MaxVary, 1)
    /\ now = 0
    /\ life = None
    /\ bioAge = None
    /\ risks = None
    /\ recs = None
    /\ prevRecs = None
    /\ riskIn = 0
    /\ catOut = None
    /\ OtherIdle

(***************************************************************************)
(* LifePredictor.__init__: the risk factor weights                         *)
(***************************************************************************)
risk_factor_weights ==
    [base_life_expectancy |-> [male |-> Tenths(761), female |-> Tenths(811)],
     smoking |-> [never |-> 0, former |-> -Num(2), current |-> -Num(10)],
     bmi |-> [optimal_range |-> <<Tenths(185), Num(25)>>,
              per_unit_above |-> -Tenths(4), per_unit_below |-> -Tenths(3)],
     blood_pressure |-> [optimal_systolic |-> Num(115), per_10mmHg_above |-> -Tenths(12)],
     cholesterol |-> [optimal_ratio |-> Tenths(35), per_unit_above |-> -Num(1)],
     exercise |-> [minutes_per_week |->
                     ("0" :> 0) @@ ("1-60" :> Num(1)) @@ ("61-150" :> Tenths(25)) @@
                     ("151-300" :> Tenths(35)) @@ ("300+" :> Tenths(42))],
     diet |-> [fruit_veg_servings |-> Tenths(4), mediterranean |-> Tenths(25),
               processed_food |-> [rarely |-> 0, sometimes |-> -Tenths(8),
                                   often |-> -Tenths(18), very_frequently |-> -Num(3)]],
     sleep |-> [optimal_hours |-> Tenths(75), per_hour_deficit |-> -Tenths(5),
                quality |-> [poor |-> -Tenths(15), fair |-> -Tenths(7),
                             good |-> 0, excellent |-> Tenths(8)]],
     alcohol |-> [none |-> 0, rare |-> Tenths(5), moderate |-> 0, frequent |-> -Num(3)],
     stress |-> [low |-> Num(1), moderate |-> 0, high |-> -Num(2), very_high |-> -Num(4)],
     social_connection |-> [factor |-> Tenths(18)],
     genetic_risk |-> [cardiovascular_factor |-> -Num(5), diabetes_factor |-> -Tenths(35),
                       cancer_factor |-> -Num(4), neurodegenerative_factor |-> -Num(3)],
     biomarker_aging |-> [biological_vs_chronological |-> Tenths(15)]]

\* the uncertainty band of predict_life_expectancy
Uncertainty == Tenths(42)

(***************************************************************************)
(* LifePredictor.predict_life_expectancy                                   *)
(***************************************************************************)
BaseExpectancy(u) ==
    risk_factor_weights.base_life_expectancy[
        IF Lower(u.user_profile.gender) = "male" THEN "male" ELSE "female"]

\* 1. Smoking adjustment
SmokingAdj(u) ==
    Get(risk_factor_weights.smoking, Lower(u.user_profile.smoking_status), 0)

\* 2. BMI adjustment
BmiAdj(u) ==
    LET w == risk_factor_weights.bmi
        bmi == u.user_profile.bmi
    IN  IF bmi > w.optimal_range[2]
        THEN Mul(bmi - w.optimal_range[2], w.per_unit_above)
        ELSE IF bmi < w.optimal_range[1]
        THEN Mul(w.optimal_range[1] - bmi, w.per_unit_below)
        ELSE 0

\* 3. Blood pressure adjustment
BloodPressureAdj(u) ==
    LET w == risk_factor_weights.blood_pressure
        systolic == u.health_metrics.blood_pressure.systolic
    IN  IF systolic > w.optimal_systolic
        THEN Mul((systolic - w.optimal_systolic) \div 10, w.per_10mmHg_above)
        ELSE 0

\* 4. Cholesterol adjustment
CholesterolAdj(u) ==
    LET w == risk_factor_weights.cholesterol
        chol_ratio == Div(u.health_metrics.cholesterol.total,
                          u.health_metrics.cholesterol.hdl)
    IN  IF chol_ratio > w.optimal_ratio
        THEN Mul(chol_ratio - w.optimal_ratio, w.per_unit_above)
        ELSE 0

\* 5. Exercise adjustment
ExerciseAdj(u) ==
    LET w == risk_factor_weights.exercise.minutes_per_week
        exercise_minutes == u.lifestyle_data.exercise.minutes_per_week
    IN  IF exercise_minutes = 0 THEN w["0"]
        ELSE IF exercise_minutes <= 60 THEN w["1-60"]
        ELSE IF exercise_minutes <= 150 THEN w["61-150"]
        ELSE IF exercise_minutes <= 300 THEN w["151-300"]
        ELSE w["300+"]

\* the processed food penalty of the diet adjustment
ProcessedFoodPenalty(u) ==
    Get(risk_factor_weights.diet.processed_food,
        Lower(u.lifestyle_data.diet.processed_food_frequency), 0)

\* 6. Diet adjustment
DietAdj(u) ==
    LET w == risk_factor_weights.diet
        diet == u.lifestyle_data.diet
    IN  diet.fruit_veg_servings_daily * w.fruit_veg_servings
        + (IF Lower(diet.type) = "mediterranean" THEN w.mediterranean ELSE 0)
        + ProcessedFoodPenalty(u)

\* the hours term of the sleep adjustment
SleepHoursTerm(u) ==
    LET w == risk_factor_weights.sleep
        sleep_hours == u.lifestyle_data.sleep.average_hours
    IN  IF sleep_hours < w.optimal_hours
        THEN Mul(sleep_hours - w.optimal_hours, w.per_hour_deficit)
        ELSE 0

\* the quality term of the sleep adjustment
SleepQualityTerm(u) ==
    Get(risk_factor_weights.sleep.quality, Lower(u.lifestyle_data.sleep.quality), 0)

\* 7. Sleep adjustment
SleepAdj(u) == SleepHoursTerm(u) + SleepQualityTerm(u)

\* 8. Alcohol adjustment
AlcoholAdj(u) ==
    Get(risk_factor_weights.alcohol, Lower(u.user_profile.alcohol_frequency), 0)

\* 9. Stress adjustment
StressAdj(u) ==
    Get(risk_factor_weights.stress, Lower(u.lifestyle_data.stress_level), 0)

\* 10. Social connection adjustment (estimated from exercise types)
SocialAdj(u) ==
    LET w == risk_factor_weights.social_connection
        IsTeam(act) == Lower(act) \in {"team sports", "dancing", "yoga", "pilates"}
        team_activities == SelectSeq(u.lifestyle_data.exercise.types, IsTeam)
    IN  IF team_activities # <<>>
        THEN Min(Mul(w.factor, Quot(Len(team_activities), 4)), w.factor)
        ELSE 0

\* 11. Genetic risk adjustment
GeneticAdj(u) ==
    LET w == risk_factor_weights.genetic_risk
        rf == u.genetic_data.risk_factors
        avg_cancer_risk ==
            (rf.cancer.colorectal + rf.cancer.breast + rf.cancer.prostate
             + rf.cancer.lung + rf.cancer.skin) \div 5
        avg_neuro_risk ==
            (rf.neurodegenerative.alzheimers + rf.neurodegenerative.parkinsons) \div 2
    IN  Mul(rf.cardiovascular_disease, w.cardiovascular_factor)
        + Mul(rf.type_2_diabetes, w.diabetes_factor)
        + Mul(avg_cancer_risk, w.cancer_factor)
        + Mul(avg_neuro_risk, w.neurodegenerative_factor)

\* 12. Biomarker aging adjustment
BioAgeAdj(u) ==
    LET bio_age_diff == Num(u.user_profile.age) - u.impedance_data.estimated_biological_age
    IN  Mul(bio_age_diff, risk_factor_weights.biomarker_aging.biological_vs_chronological)

\* the list `adjustments`, in the order of the appends
Adjustments(u) ==
    << <<"Smoking", SmokingAdj(u)>>,
       <<"BMI", BmiAdj(u)>>,
       <<"Blood Pressure", BloodPressureAdj(u)>>,
       <<"Cholesterol", CholesterolAdj(u)>>,
       <<"Exercise", ExerciseAdj(u)>>,
       <<"Diet", DietAdj(u)>>,
       <<"Sleep", SleepAdj(u)>>,
       <<"Alcohol", AlcoholAdj(u)>>,
       <<"Stress", StressAdj(u)>>,
       <<"Social Connection", SocialAdj(u)>>,
       <<"Genetic Factors", GeneticAdj(u)>>,
       <<"Biological Age", BioAgeAdj(u)>> >>


\* TotalAdjustment with a slip: the sum stops one entry short of the list
TotalAdjustmentOffByOne(adjustments) ==
    SumSeq([i \in 1..(Len(adjustments) - 1) |-> adjustments[i][2]])

\* sum(adj for _, adj in adjustments)
TotalAdjustment(adjustments) ==
    SumSeq([i \in 1..Len(adjustments) |-> adjustments[i][2]])

predict_life_expectancy(u, t) ==
    LET adjustments == Adjustments(u)
        base_expectancy == BaseExpectancy(u)
        life_expectancy == base_expectancy + TotalAdjustment(adjustments)
        remaining_years == life_expectancy - Num(u.user_profile.age)
    IN  [user_id |-> u.user_profile.user_id,
         current_age |-> u.user_profile.age,
         gender |-> u.user_profile.gender,
         base_life_expectancy |-> base_expectancy,
         predicted_life_expectancy |-> Round1(life_expectancy),
         confidence_interval |-> <<Round1(life_expectancy - Uncertainty),
                                   Round1(life_expectancy + Uncertainty)>>,
         expected_remaining_years |-> Round1(remaining_years),
         factors |-> adjustments,
         predicted_at |-> t]

\* a call of predict_life_expectancy(user)
PredictLifeExpectancy ==
    /\ life = None
    /\ \E t \in ClockReadings :
          /\ life' = predict_life_expectancy(user, t)
          /\ now' = t
    /\ UNCHANGED <<user, bioAge, risks, recs, prevRecs, riskIn, catOut>>
    /\ UNCHANGED otherVars

SpecLife == Init /\ [][PredictLifeExpectancy]_vars

(***************************************************************************)
(* LifePredictor.calculate_biological_age                                  *)
(***************************************************************************)
\* sum(factors) / len(factors)
Mean(factors) == SumSeq(factors) \div Len(factors)

bp_age_factor(u) ==
    LET systolic == u.health_metrics.blood_pressure.systolic
        diastolic == u.health_metrics.blood_pressure.diastolic
    IN  IF systolic <= Num(120) /\ diastolic <= Num(80) THEN -Num(5)
        ELSE IF systolic <= Num(130) /\ diastolic <= Num(85) THEN 0
        ELSE IF systolic <= Num(140) /\ diastolic <= Num(90) THEN Num(5)
        ELSE Num(10)

hr_age_factor(u) ==
    LET heart_rate == u.health_metrics.resting_heart_rate
    IN  IF heart_rate < Num(60) THEN -Num(5)
        ELSE IF heart_rate <= Num(70) THEN -Num(2)
        ELSE IF heart_rate <= Num(80) THEN 0
        ELSE IF heart_rate <= Num(90) THEN Num(3)
        ELSE Num(7)

chol_age_factor(u) ==
    LET chol_ratio == Div(u.health_metrics.cholesterol.total,
                          u.health_metrics.cholesterol.hdl)
    IN  IF chol_ratio < Tenths(35) THEN -Num(3)
        ELSE IF chol_ratio < Tenths(45) THEN 0
        ELSE IF chol_ratio < Tenths(55) THEN Num(3)
        ELSE Num(7)

cv_age_adjustment(u) == Mean(<<bp_age_factor(u), hr_age_factor(u), chol_age_factor(u)>>)

glucose_age_factor(u) ==
    LET glucose == u.health_metrics.fasting_glucose
    IN  IF glucose < Num(90) THEN -Num(3)
        ELSE IF glucose <= Num(100) THEN 0
        ELSE IF glucose <= Num(110) THEN Num(2)
        ELSE IF glucose <= Num(125) THEN Num(5)
        ELSE Num(10)

hba1c_age_factor(u) ==
    LET hba1c == u.health_metrics.hba1c
    IN  IF hba1c < Num(5) THEN -Num(3)
        ELSE IF hba1c <= Tenths(56) THEN 0
        ELSE IF hba1c <= Num(6) THEN Num(2)
        ELSE IF hba1c <= Tenths(64) THEN Num(5)
        ELSE Num(10)

bmi_age_factor(u) ==
    LET bmi == u.user_profile.bmi
    IN  IF Tenths(185) <= bmi /\ bmi <= Tenths(249) THEN -Num(2)
        ELSE IF Num(25) <= bmi /\ bmi <= Tenths(299) THEN Num(1)
        ELSE IF bmi >= Num(30) THEN Num(5)
        ELSE 0

metabolic_age_adjustment(u) ==
    Mean(<<glucose_age_factor(u), hba1c_age_factor(u), bmi_age_factor(u)>>)

\* the VO2 max reference value for the gender and the chronological age
vo2_ref(u) ==
    LET chronological_age == u.user_profile.age
    IN  IF Lower(u.user_profile.gender) = "male"
        THEN IF chronological_age < 30 THEN Num(45)
             ELSE IF chronological_age < 40 THEN Num(42)
             ELSE IF chronological_age < 50 THEN Num(38)
             ELSE IF chronological_age < 60 THEN Num(35)
             ELSE Num(32)
        ELSE IF chronological_age < 30 THEN Num(38)
             ELSE IF chronological_age < 40 THEN Num(35)
             ELSE IF chronological_age < 50 THEN Num(32)
             ELSE IF chronological_age < 60 THEN Num(29)
             ELSE Num(26)

fitness_age_factor(u) ==
    LET vo2_diff == u.health_metrics.vo2_max - vo2_ref(u)
    IN  (-vo2_diff) \div 2

exercise_age_factor(u) ==
    LET exercise_minutes == u.lifestyle_data.exercise.minutes_per_week
    IN  IF exercise_minutes >= 300 THEN -Num(4)
        ELSE IF exercise_minutes >= 150 THEN -Num(2)
        ELSE IF exercise_minutes >= 60 THEN 0
        ELSE Num(3)

fitness_age_adjustment(u) == Mean(<<fitness_age_factor(u), exercise_age_factor(u)>>)

sleep_age_factor(u) ==
    LET sleep_hours == u.lifestyle_data.sleep.average_hours
        sleep_quality == Lower(u.lifestyle_data.sleep.quality)
    IN  IF sleep_hours >= Num(7) /\ sleep_quality \in {"good", "excellent"} THEN -Num(3)
        ELSE IF sleep_hours >= Tenths(65) /\ sleep_quality \in {"fair", "good", "excellent"}
        THEN -Num(1)
        ELSE IF sleep_hours < Num(6) \/ sleep_quality = "poor" THEN Num(3)
        ELSE 0

diet_age_factor(u) ==
    LET diet_type == Lower(u.lifestyle_data.diet.type)
        fruit_veg == u.lifestyle_data.diet.fruit_veg_servings_daily
        processed_food == Lower(u.lifestyle_data.diet.processed_food_frequency)
    IN  (IF diet_type \in {"mediterranean", "vegetarian", "vegan"} THEN -Num(2) ELSE 0)
        + (IF fruit_veg >= 5 THEN -Num(2)
           ELSE IF fruit_veg >= 3 THEN -Num(1)
           ELSE IF fruit_veg < 1 THEN Num(2)
           ELSE 0)
        + (IF processed_food = "rarely" THEN -Num(1)
           ELSE IF processed_food = "very frequently" THEN Num(2)
           ELSE 0)

stress_age_factor(u) ==
    LET stress_level == Lower(u.lifestyle_data.stress_level)
    IN  IF stress_level = "low" THEN -Num(2)
        ELSE IF stress_level = "moderate" THEN 0
        ELSE IF stress_level = "high" THEN Num(2)
        ELSE Num(4)

lifestyle_age_adjustment(u) ==
    Mean(<<sleep_age_factor(u), diet_age_factor(u), stress_age_factor(u)>>)

\* the weights reported with the factors (they take no part in the sum)
factor_weights ==
    [impedance |-> Tenths(4), cardiovascular |-> Tenths(2), metabolic |-> Tenths(2),
     fitness |-> Tenths(1), lifestyle |-> Tenths(1)]

\* BiologicalAgeSum with a slip: every term is multiplied by its declared weight
BiologicalAgeWeighted(u) ==
    LET weighted(weight, x) == ((weight \div (Scale \div 10)) * x) \div 10
    IN  weighted(factor_weights.impedance, u.impedance_data.estimated_biological_age)
        + weighted(factor_weights.cardiovascular, cv_age_adjustment(u))
        + weighted(factor_weights.metabolic, metabolic_age_adjustment(u))
        + weighted(factor_weights.fitness, fitness_age_adjustment(u))
        + weighted(factor_weights.lifestyle, lifestyle_age_adjustment(u))

\* biological_age before the floor
BiologicalAgeSum(u) ==
    LET chronological_age == Num(u.user_profile.age)
        impedance_age == u.impedance_data.estimated_biological_age
    IN  chronological_age + (impedance_age - chronological_age)
        + cv_age_adjustment(u) + metabolic_age_adjustment(u)
        + fitness_age_adjustment(u) + lifestyle_age_adjustment(u)


\* BiologicalAgeFloor with a slip: the floor is missing
BiologicalAgeNoFloor(x) == x

\* biological_age = max(20, biological_age)
BiologicalAgeFloor(x) == Max(Num(20), x)

calculate_biological_age(u, t) ==
    LET chronological_age == Num(u.user_profile.age)
        biological_age == BiologicalAgeFloor(BiologicalAgeSum(u))
    IN  [user_id |-> u.user_profile.user_id,
         chronological_age |-> u.user_profile.age,
         biological_age |-> Round1(biological_age),
         age_difference |-> Round1(biological_age - chronological_age),
         factors |->
            [impedance_based |->
                [age |-> Round1(u.impedance_data.estimated_biological_age),
                 weight |-> factor_weights.impedance],
             cardiovascular |-> [adjustment |-> Round1(cv_age_adjustment(u)),
                                 weight |-> factor_weights.cardiovascular],
             metabolic |-> [adjustment |-> Round1(metabolic_age_adjustment(u)),
                            weight |-> factor_weights.metabolic],
             fitness |-> [adjustment |-> Round1(fitness_age_adjustment(u)),
                          weight |-> factor_weights.fitness],
             lifestyle |-> [adjustment |-> Round1(lifestyle_age_adjustment(u)),
                            weight |-> factor_weights.lifestyle]],
         calculated_at |-> t]

\* a call of calculate_biological_age(user)
CalculateBiologicalAge ==
    /\ bioAge = None
    /\ \E t \in ClockReadings :
          /\ bioAge' = calculate_biological_age(user, t)
          /\ now' = t
    /\ UNCHANGED <<user, life, risks, recs, prevRecs, riskIn, catOut>>
    /\ UNCHANGED otherVars

SpecBio == Init /\ [][CalculateBiologicalAge]_vars

(***************************************************************************)
(* LifePredictor._categorize_risk                                          *)
(***************************************************************************)

\* _categorize_risk with a slip: a risk at a cut point stays in the lower category
CategorizeRiskInclusive(risk_level) ==
    IF risk_level <= Hundredths(15) THEN "Low"
    ELSE IF risk_level <= Hundredths(35) THEN "Moderate"
    ELSE IF risk_level <= Hundredths(60) THEN "High"
    ELSE "Very High"

_categorize_risk(risk_level) ==
    IF risk_level < Hundredths(15) THEN "Low"
    ELSE IF risk_level < Hundredths(35) THEN "Moderate"
    ELSE IF risk_level < Hundredths(60) THEN "High"
    ELSE "Very High"

(***************************************************************************)
(* LifePredictor.calculate_health_risks                                    *)
(***************************************************************************)
bp_risk_factor(u) ==
    LET systolic == u.health_metrics.blood_pressure.systolic
        diastolic == u.health_metrics.blood_pressure.diastolic
    IN  IF systolic > Num(140) \/ diastolic > Num(90) THEN Tenths(3)
        ELSE IF systolic > Num(130) \/ diastolic > Num(85) THEN Tenths(2)
        ELSE IF systolic > Num(120) \/ diastolic > Num(80) THEN Tenths(1)
        ELSE 0

chol_risk_factor(u) ==
    LET chol_ratio == Div(u.health_metrics.cholesterol.total,
                          u.health_metrics.cholesterol.hdl)
    IN  IF chol_ratio > Num(5) THEN Tenths(3)
        ELSE IF chol_ratio > Num(4) THEN Tenths(2)
        ELSE IF chol_ratio > Tenths(35) THEN Tenths(1)
        ELSE 0

\* smoking_risk_factor as assigned for the cardiovascular risk
cv_smoking_risk_factor(u) ==
    LET smoking_status == Lower(u.user_profile.smoking_status)
    IN  IF smoking_status = "current" THEN Tenths(4)
        ELSE IF smoking_status = "former" THEN Tenths(1)
        ELSE 0

\* exercise_risk_factor as assigned for the cardiovascular, the metabolic and
\* the neurological risk
exercise_risk_factor(u) ==
    LET exercise_minutes == u.lifestyle_data.exercise.minutes_per_week
    IN  IF exercise_minutes < 30 THEN Tenths(2)
        ELSE IF exercise_minutes < 90 THEN Tenths(1)
        ELSE 0

\* bmi_risk_factor as assigned for the cardiovascular risk
cv_bmi_risk_factor(u) ==
    LET bmi == u.user_profile.bmi
    IN  IF bmi > Num(30) THEN Tenths(2)
        ELSE IF bmi > Num(25) THEN Tenths(1)
        ELSE 0

cv_risk_factors(u) ==
    <<u.genetic_data.risk_factors.cardiovascular_disease, bp_risk_factor(u),
      chol_risk_factor(u), cv_smoking_risk_factor(u), exercise_risk_factor(u),
      cv_bmi_risk_factor(u)>>

\* the cap: min(1.0, risk)
CapRisk(x) == Min(Num(1), x)

cardiovascular_risk(u) == CapRisk(Mean(cv_risk_factors(u)))

glucose_risk_factor(u) ==
    LET glucose == u.health_metrics.fasting_glucose
        hba1c == u.health_metrics.hba1c
    IN  IF glucose > Num(125) \/ hba1c > Tenths(64) THEN Tenths(5)
        ELSE IF glucose > Num(100) \/ hba1c > Tenths(57) THEN Tenths(3)
        ELSE 0

\* bmi_risk_factor as assigned for the metabolic risk
metabolic_bmi_risk_factor(u) ==
    LET bmi == u.user_profile.bmi
    IN  IF bmi > Num(30) THEN Tenths(3)
        ELSE IF bmi > Num(25) THEN Tenths(2)
        ELSE 0

\* diet_risk_factor as assigned for the metabolic risk
metabolic_diet_risk_factor(u) ==
    LET processed_food == Lower(u.lifestyle_data.diet.processed_food_frequency)
        fruit_veg == u.lifestyle_data.diet.fruit_veg_servings_daily
    IN  (IF processed_food = "very frequently" THEN Tenths(2)
         ELSE IF processed_food = "often" THEN Tenths(1)
         ELSE 0)
        + (IF fruit_veg < 2 THEN Tenths(1) ELSE 0)

metabolic_risk_factors(u) ==
    <<u.genetic_data.risk_factors.type_2_diabetes, glucose_risk_factor(u),
      metabolic_bmi_risk_factor(u), exercise_risk_factor(u),
      metabolic_diet_risk_factor(u)>>

metabolic_risk(u) == CapRisk(Mean(metabolic_risk_factors(u)))

neuro_genetic_risk(u) ==
    LET neurodegenerative_risks == u.genetic_data.risk_factors.neurodegenerative
    IN  (neurodegenerative_risks.alzheimers + neurodegenerative_risks.parkinsons) \div 2

sleep_risk_factor(u) ==
    LET sleep_hours == u.lifestyle_data.sleep.average_hours
        sleep_quality == Lower(u.lifestyle_data.sleep.quality)
    IN  (IF sleep_hours < Num(6) THEN Tenths(2)
         ELSE IF sleep_hours < Num(7) THEN Tenths(1)
         ELSE 0)
        + (IF sleep_quality = "poor" THEN Tenths(1) ELSE 0)

stress_risk_factor(u) ==
    LET stress_level == Lower(u.lifestyle_data.stress_level)
    IN  IF stress_level = "very high" THEN Tenths(3)
        ELSE IF stress_level = "high" THEN Tenths(2)
        ELSE IF stress_level = "moderate" THEN Tenths(1)
        ELSE 0

\* diet_risk_factor as assigned for the neurological risk
neuro_diet_risk_factor(u) ==
    LET diet_type == Lower(u.lifestyle_data.diet.type)
        fruit_veg == u.lifestyle_data.diet.fruit_veg_servings_daily
    IN  (IF diet_type = "mediterranean" THEN -Tenths(1) ELSE 0)
        + (IF fruit_veg < 3 THEN Tenths(1) ELSE 0)


\* NeuroDietAppended with a slip: the protective diet factor is appended unclamped
NeuroDietUnclamped(u) == neuro_diet_risk_factor(u)

\* what is appended for the diet: max(0, diet_risk_factor)
NeuroDietAppended(u) == Max(0, neuro_diet_risk_factor(u))

neuro_risk_factors(u) ==
    <<neuro_genetic_risk(u), sleep_risk_factor(u), stress_risk_factor(u),
      exercise_risk_factor(u), NeuroDietAppended(u)>>

neurological_risk(u) == CapRisk(Mean(neuro_risk_factors(u)))

avg_cancer_genetic_risk(u) ==
    LET cancer_genetic_risks == u.genetic_data.risk_factors.cancer
    IN  (cancer_genetic_risks.colorectal + cancer_genetic_risks.breast
         + cancer_genetic_risks.prostate + cancer_genetic_risks.lung
         + cancer_genetic_risks.skin) \div 5

\* smoking_risk_factor as assigned for the cancer risk
cancer_smoking_risk_factor(u) ==
    LET smoking_status == Lower(u.user_profile.smoking_status)
    IN  IF smoking_status = "current" THEN Tenths(3)
        ELSE IF smoking_status = "former" THEN Tenths(1)
        ELSE 0

\* exercise_risk_factor as assigned for the cancer risk
cancer_exercise_risk_factor(u) ==
    IF u.lifestyle_data.exercise.minutes_per_week < 30 THEN Tenths(1) ELSE 0

\* diet_risk_factor as assigned for the cancer risk
cancer_diet_risk_factor(u) ==
    IF u.lifestyle_data.diet.fruit_veg_servings_daily < 2 THEN Tenths(1) ELSE 0

cancer_risk_factors(u) ==
    <<avg_cancer_genetic_risk(u), cancer_smoking_risk_factor(u),
      cancer_exercise_risk_factor(u), cancer_diet_risk_factor(u)>>

cancer_risk(u) == CapRisk(Mean(cancer_risk_factors(u)))

\* The result.  The factor breakdowns read the variables smoking_risk_factor,
\* exercise_risk_factor, bmi_risk_factor and diet_risk_factor after their last
\* assignment: the cancer section's for smoking, exercise and diet, the
\* metabolic section's for bmi.
calculate_health_risks(u, t) ==
    [user_id |-> u.user_profile.user_id,
     risks |->
        [cardiovascular |->
            [risk_level |-> Round2(cardiovascular_risk(u)),
             category |-> _categorize_risk(cardiovascular_risk(u)),
             factors |->
                [genetic |-> Round2(u.genetic_data.risk_factors.cardiovascular_disease),
                 blood_pressure |-> Round2(bp_risk_factor(u)),
                 cholesterol |-> Round2(chol_risk_factor(u)),
                 smoking |-> Round2(cancer_smoking_risk_factor(u)),
                 exercise |-> Round2(cancer_exercise_risk_factor(u)),
                 bmi |-> Round2(metabolic_bmi_risk_factor(u))]],
         metabolic |->
            [risk_level |-> Round2(metabolic_risk(u)),
             category |-> _categorize_risk(metabolic_risk(u)),
             factors |->
                [genetic |-> Round2(u.genetic_data.risk_factors.type_2_diabetes),
                 glucose |-> Round2(glucose_risk_factor(u)),
                 bmi |-> Round2(metabolic_bmi_risk_factor(u)),
                 exercise |-> Round2(cancer_exercise_risk_factor(u)),
                 diet |-> Round2(cancer_diet_risk_factor(u))]],
         neurological |->
            [risk_level |-> Round2(neurological_risk(u)),
             category |-> _categorize_risk(neurological_risk(u)),
             factors |->
                [genetic |-> Round2(neuro_genetic_risk(u)),
                 sleep |-> Round2(sleep_risk_factor(u)),
                 stress |-> Round2(stress_risk_factor(u)),
                 exercise |-> Round2(cancer_exercise_risk_factor(u)),
                 diet |-> Round2(cancer_diet_risk_factor(u))]],
         cancer |->
            [risk_level |-> Round2(cancer_risk(u)),
             category |-> _categorize_risk(cancer_risk(u)),
             factors |->
                [genetic |-> Round2(avg_cancer_genetic_risk(u)),
                 smoking |-> Round2(cancer_smoking_risk_factor(u)),
                 exercise |-> Round2(cancer_exercise_risk_factor(u)),
                 diet |-> Round2(cancer_diet_risk_factor(u))]]],
     assessed_at |-> t]

\* a call of calculate_health_risks(user)
CalculateHealthRisks ==
    /\ risks = None
    /\ \E t \in ClockReadings :
          /\ risks' = calculate_health_risks(user, t)
          /\ now' = t
    /\ UNCHANGED <<user, life, bioAge, recs, prevRecs, riskIn, catOut>>
    /\ UNCHANGED otherVars

SpecRisk == Init /\ [][CalculateHealthRisks]_vars

(***************************************************************************)
(* LifePredictor.generate_recommendations: the catalog of entries          *)
(***************************************************************************)
Rec(priority, recommendation, impact) ==
    [priority |-> priority, recommendation |-> recommendation, impact |-> impact]

RecStartExercise ==
    Rec("High",
        "Start with 10 minutes of moderate activity daily, gradually increasing to at least 30 minutes per day, 5 days per week.",
        "Essential for cardiovascular health, metabolic health, and longevity")
RecIncreaseExercise ==
    Rec("Medium",
        "Increase physical activity to reach at least 150 minutes of moderate exercise per week.",
        "Can reduce cardiovascular and metabolic disease risk by 20-30%")
RecMaintainExercise ==
    Rec("Low",
        "Maintain current exercise levels and consider adding strength training if not already included.",
        "Helps maintain muscle mass and metabolic health with aging")
RecAerobic ==
    Rec("High",
        "Include aerobic exercises like brisk walking, swimming, or cycling at least 3 times per week.",
        "Can significantly improve heart health and lower resting heart rate")
RecResistance ==
    Rec("Medium",
        "Add resistance training exercises 2-3 times per week to maintain muscle mass and bone density.",
        "Critical for maintaining functional independence with age")
RecFruitVeg ==
    Rec("High",
        "Increase fruit and vegetable intake to at least 5 servings per day.",
        "Associated with reduced risk of cardiovascular disease, cancer, and all-cause mortality")
RecProcessedFood ==
    Rec("High",
        "Reduce consumption of processed foods, especially those high in added sugars and unhealthy fats.",
        "Can significantly improve metabolic health and reduce inflammation")
RecMediterranean ==
    Rec("Medium",
        "Consider adopting a Mediterranean diet pattern rich in olive oil, nuts, fish, and whole grains.",
        "Strong evidence for reducing cardiovascular disease risk and certain cancers")
RecSleepHours ==
    Rec("High",
        "Aim for 7-8 hours of quality sleep per night by establishing a regular sleep schedule and optimizing your sleep environment.",
        "Critical for cognitive function, immune health, and metabolic regulation")
RecSleepHygiene ==
    Rec("Medium",
        "Implement good sleep hygiene practices: limit screen time before bed, keep bedroom cool and dark, avoid caffeine after noon.",
        "Can significantly improve sleep onset and quality")
RecStressPractice ==
    Rec("High",
        "Incorporate daily stress reduction practices such as meditation, deep breathing, or mindfulness for at least 10-15 minutes.",
        "Reduces stress hormones and improves cardiovascular and immune function")
RecStressors ==
    Rec("Medium",
        "Consider limiting exposure to stressors, including reducing news consumption and setting boundaries on work hours.",
        "Helps manage chronic stress that contributes to premature aging")
RecCheckups ==
    Rec("Medium",
        "Schedule annual comprehensive health check-ups including cardiovascular assessment and appropriate cancer screenings.",
        "Early detection significantly improves treatment outcomes")
RecGlucose ==
    Rec("High",
        "Monitor blood glucose levels regularly and get HbA1c tested every 6 months.",
        "Helps detect prediabetes early when lifestyle interventions are most effective")
RecBloodPressure ==
    Rec("High",
        "Track blood pressure weekly and work with healthcare provider to develop a management plan.",
        "Reduces risk of stroke, heart disease, and kidney problems")
RecQuitSmoking ==
    Rec("Very High",
        "Quit smoking with appropriate cessation support such as counseling, nicotine replacement, or medications.",
        "Single most effective action to improve health and longevity, adding up to 10 years of life")
RecAlcohol ==
    Rec("High",
        "Reduce alcohol consumption to no more than 1 drink per day for women or 2 drinks per day for men.",
        "Reduces risk of liver disease, cancer, and cardiovascular problems")

\* [r] if cond else []
When(cond, r) == IF cond THEN <<r>> ELSE <<>>

HighOrVeryHigh == {"High", "Very High"}

(***************************************************************************)
(* LifePredictor.generate_recommendations: the six lists                   *)
(***************************************************************************)
\* 1. Exercise recommendations
ExerciseRecs(u, r) ==
    LET exercise == u.lifestyle_data.exercise
        LowerTypes == {Lower(exercise.types[i]) : i \in 1..Len(exercise.types)}
    IN  (IF exercise.minutes_per_week < 30 THEN <<RecStartExercise>>
         ELSE IF exercise.minutes_per_week < 150 THEN <<RecIncreaseExercise>>
         ELSE <<RecMaintainExercise>>)
        \o When(r.risks.cardiovascular.category \in HighOrVeryHigh
                \/ u.health_metrics.resting_heart_rate > Num(80), RecAerobic)
        \o When(u.user_profile.age > 50 \/ "weight training" \notin LowerTypes,
                RecResistance)

\* the test of the processed food rule
ProcessedFoodRule(u) ==
    u.lifestyle_data.diet.processed_food_frequency \in {"often", "very frequently"}

\* 2. Nutrition recommendations
NutritionRecs(u, r) ==
    LET diet == u.lifestyle_data.diet
    IN  When(diet.fruit_veg_servings_daily < 3, RecFruitVeg)
        \o When(ProcessedFoodRule(u), RecProcessedFood)
        \o When(Lower(diet.type) # "mediterranean"
                /\ (r.risks.cardiovascular.category \in HighOrVeryHigh
                    \/ r.risks.cancer.category \in HighOrVeryHigh), RecMediterranean)

\* 3. Sleep recommendations
SleepRecs(u) ==
    LET sleep == u.lifestyle_data.sleep
    IN  IF sleep.average_hours < Num(7) \/ Lower(sleep.quality) \in {"poor", "fair"}
        THEN <<RecSleepHours>> \o When(Lower(sleep.quality) = "poor", RecSleepHygiene)
        ELSE <<>>

\* 4. Stress management recommendations
StressRecs(u) ==
    IF Lower(u.lifestyle_data.stress_level) \in {"high", "very high"}
    THEN <<RecStressPractice, RecStressors>>
    ELSE <<>>

\* 5. Health monitoring recommendations
MonitoringRecs(u, r) ==
    LET blood_pressure == u.health_metrics.blood_pressure
    IN  When(u.user_profile.age > 40, RecCheckups)
        \o When(u.user_profile.bmi > Num(30)
                \/ r.risks.metabolic.category \in HighOrVeryHigh, RecGlucose)
        \o When(blood_pressure.systolic > Num(130) \/ blood_pressure.diastolic > Num(85),
                RecBloodPressure)


\* LifestyleRecs with a slip: the smoking status is compared as it was written
LifestyleRecsCaseSensitive(u) ==
    When(u.user_profile.smoking_status = "current", RecQuitSmoking)
    \o When(Lower(u.user_profile.alcohol_frequency) = "frequent", RecAlcohol)

\* 6. Lifestyle recommendations
LifestyleRecs(u) ==
    When(Lower(u.user_profile.smoking_status) = "current", RecQuitSmoking)
    \o When(Lower(u.user_profile.alcohol_frequency) = "frequent", RecAlcohol)

\* the dict `recommendations`; its keys in insertion order are CategoryOrder
Recommendations(u, r) ==
    [exercise |-> ExerciseRecs(u, r),
     nutrition |-> NutritionRecs(u, r),
     sleep |-> SleepRecs(u),
     stress_management |-> StressRecs(u),
     health_monitoring |-> MonitoringRecs(u, r),
     lifestyle |-> LifestyleRecs(u)]

CategoryOrder ==
    <<"exercise", "nutrition", "sleep", "stress_management", "health_monitoring",
      "lifestyle">>

(***************************************************************************)
(* LifePredictor._extract_high_priority_recommendations                    *)
(***************************************************************************)
\* the entries of one category that the loop appends to high_priority
HighPriorityOf(category, category_recs) ==
    LET hp == SelectSeq(category_recs, LAMBDA rec : rec.priority \in HighOrVeryHigh)
    IN  [i \in 1..Len(hp) |->
            [category |-> category, recommendation |-> hp[i].recommendation,
             priority |-> hp[i].priority, impact |-> hp[i].impact]]

\* high_priority after the loops over recommendations.items()
RECURSIVE CollectHighPriority(_, _)
CollectHighPriority(recommendations, k) ==
    IF k = 0 THEN <<>>
    ELSE CollectHighPriority(recommendations, k - 1)
         \o HighPriorityOf(CategoryOrder[k], recommendations[CategoryOrder[k]])

\* the sort key: 0 if x["priority"] == "Very High" else 1
PriorityKey(x) == IF x.priority = "Very High" THEN 0 ELSE 1


\* InsertByKey with a slip: x goes in front of the entries with an equal key
InsertByKeyUnstable(sorted, x) ==
    LET n == Cardinality({i \in 1..Len(sorted) : PriorityKey(sorted[i]) < PriorityKey(x)})
    IN  SubSeq(sorted, 1, n) \o <<x>> \o SubSeq(sorted, n + 1, Len(sorted))

\* list.sort(key=...) is stable: x goes behind every entry whose key is not larger
InsertByKey(sorted, x) ==
    LET n == Cardinality({i \in 1..Len(sorted) : PriorityKey(sorted[i]) <= PriorityKey(x)})
    IN  SubSeq(sorted, 1, n) \o <<x>> \o SubSeq(sorted, n + 1, Len(sorted))

RECURSIVE SortByPriority(_)
SortByPriority(s) ==
    IF s = <<>> THEN <<>>
    ELSE InsertByKey(SortByPriority(SubSeq(s, 1, Len(s) - 1)), s[Len(s)])

_extract_high_priority_recommendations(recommendations) ==
    SortByPriority(CollectHighPriority(recommendations, Len(CategoryOrder)))

(***************************************************************************)
(* LifePredictor._estimate_impact_on_life_expectancy                       *)
(***************************************************************************)

\* CountHighPriority with a slip: the Very High entries are not counted
RECURSIVE CountOnlyHigh(_, _)
CountOnlyHigh(recommendations, k) ==
    IF k = 0 THEN 0
    ELSE CountOnlyHigh(recommendations, k - 1)
         + Len(SelectSeq(recommendations[CategoryOrder[k]],
                         LAMBDA rec : rec.priority = "High"))

RECURSIVE CountHighPriority(_, _)
CountHighPriority(recommendations, k) ==
    IF k = 0 THEN 0
    ELSE CountHighPriority(recommendations, k - 1)
         + Len(SelectSeq(recommendations[CategoryOrder[k]],
                         LAMBDA rec : rec.priority \in HighOrVeryHigh))

_estimate_impact_on_life_expectancy(recommendations, predictions) ==
    LET high_priority_count == CountHighPriority(recommendations, Len(CategoryOrder))
        potential_years_gained == Min(high_priority_count * Tenths(8), Num(8))
        current_life_expectancy == predictions.predicted_life_expectancy
        potential_life_expectancy == current_life_expectancy + potential_years_gained
    IN  [current_life_expectancy |-> current_life_expectancy,
         potential_life_expectancy |-> Round1(potential_life_expectancy),
         potential_years_gained |-> Round1(potential_years_gained),
         note |-> "Estimated impact if all high priority recommendations are followed consistently"]

(***************************************************************************)
(* LifePredictor.generate_recommendations                                  *)
(***************************************************************************)

\* generate_recommendations with a slip: the impact estimate is stamped as well
generate_recommendations_stamped(u, predictions, r, t) ==
    LET recommendations == Recommendations(u, r)
        impact == _estimate_impact_on_life_expectancy(recommendations, predictions)
    IN  [user_id |-> u.user_profile.user_id,
         recommendations |-> recommendations,
         top_priorities |-> _extract_high_priority_recommendations(recommendations),
         potential_impact |->
            [current_life_expectancy |-> impact.current_life_expectancy,
             potential_life_expectancy |-> impact.potential_life_expectancy,
             potential_years_gained |-> impact.potential_years_gained,
             note |-> impact.note,
             estimated_at |-> t],
         generated_at |-> t]

generate_recommendations(u, predictions, r, t) ==
    LET recommendations == Recommendations(u, r)
    IN  [user_id |-> u.user_profile.user_id,
         recommendations |-> recommendations,
         top_priorities |-> _extract_high_priority_recommendations(recommendations),
         potential_impact |->
            _estimate_impact_on_life_expectancy(recommendations, predictions),
         generated_at |-> t]

\* a call of generate_recommendations(user, life, risks), as run_complete_analysis
\* makes it with the results of its first calls; the result of the call before
\* is kept beside the new one
GenerateRecommendations ==
    /\ life # None
    /\ risks # None
    /\ prevRecs = None
    /\ \E t \in ClockReadings :
          /\ recs' = generate_recommendations(user, life, risks, t)
          /\ now' = t
    /\ prevRecs' = recs
    /\ UNCHANGED <<user, life, bioAge, risks, riskIn, catOut>>
    /\ UNCHANGED otherVars

\* run_complete_analysis has computed the life expectancy and the health risks
InitRec ==
    /\ \E b \in BaseUsers : Vary(b, MaxVary, 1)
    /\ now = 0
    /\ life = predict_life_expectancy(user, now)
    /\ bioAge = None
    /\ risks = calculate_health_risks(user, now)
    /\ recs = None
    /\ prevRecs = None
    /\ riskIn = 0
    /\ catOut = None
    /\ OtherIdle

SpecRec == InitRec /\ [][GenerateRecommendations]_vars

\* the one call that run_complete_analysis makes
FirstRecommendations ==
    /\ recs = None
    /\ GenerateRecommendations

SpecRecOnce == InitRec /\ [][FirstRecommendations]_vars

(***************************************************************************)
(* _categorize_risk on its own                                             *)
(***************************************************************************)
\* a call of _categorize_risk(riskIn)
CategorizeRisk ==
    /\ catOut = None
    /\ catOut' = [category |-> _categorize_risk(riskIn)]
    /\ UNCHANGED <<user, now, life, bioAge, risks, recs, prevRecs, riskIn>>
    /\ UNCHANGED otherVars

\* risk levels from 0 to 1 in steps of 1/Scale
InitCat ==
    /\ user = AtRiskUser
    /\ now = 0
    /\ life = None
    /\ bioAge = None
    /\ risks = None
    /\ recs = None
    /\ prevRecs = None
    /\ riskIn \in 0 .. Num(1)
    /\ catOut = None
    /\ OtherIdle

SpecCat == InitCat /\ [][CategorizeRisk]_vars

(***************************************************************************)
(* LifePredictor.run_complete_analysis                                     *)
(***************************************************************************)
\* keys whose absence from the mapping is modelled, in the order in which the
\* four steps of the analysis first read them: the five sections at the top of
\* predict_life_expectancy, then its fields, then a field that
\* calculate_biological_age is the first to read
ReadOrder ==
    <<"user_profile", "health_metrics", "impedance_data", "lifestyle_data",
      "genetic_data", "gender", "hdl", "stress_level", "user_id",
      "resting_heart_rate">>

\* str(KeyError(key))
KeyErrorMessage(key) ==
    CASE key = "user_profile" -> "'user_profile'"
      [] key = "health_metrics" -> "'health_metrics'"
      [] key = "impedance_data" -> "'impedance_data'"
      [] key = "lifestyle_data" -> "'lifestyle_data'"
      [] key = "genetic_data" -> "'genetic_data'"
      [] key = "gender" -> "'gender'"
      [] key = "hdl" -> "'hdl'"
      [] key = "stress_level" -> "'stress_level'"
      [] key = "user_id" -> "'user_id'"
      [] key = "resting_heart_rate" -> "'resting_heart_rate'"

\* the exception that the read at position i of ReadOrder raises, or None:
\* a missing key is a KeyError, and total / hdl with hdl = 0 a ZeroDivisionError
RaisedAt(u, missing, i) ==
    IF ReadOrder[i] \in missing
    THEN [type |-> "KeyError", message |-> KeyErrorMessage(ReadOrder[i])]
    ELSE IF ReadOrder[i] = "hdl" /\ u.health_metrics.cholesterol.hdl = 0
    THEN [type |-> "ZeroDivisionError", message |-> "division by zero"]
    ELSE None

\* the first exception raised inside the try block, or None
RECURSIVE FirstRaised(_, _, _)
FirstRaised(u, missing, i) ==
    IF i > Len(ReadOrder) THEN None
    ELSE IF RaisedAt(u, missing, i) # None THEN RaisedAt(u, missing, i)
    ELSE FirstRaised(u, missing, i + 1)

\* the except clause: it looks user_id up again when user_profile is there
ErrorResults(u, missing, e, t) ==
    IF "user_profile" \in missing
    THEN [user_id |-> "unknown", status |-> "error", error_message |-> e.message,
          analysis_attempted_at |-> t]
    ELSE IF "user_id" \in missing
    THEN [raised |-> "KeyError", message |-> KeyErrorMessage("user_id")]
    ELSE [user_id |-> u.user_profile.user_id, status |-> "error",
          error_message |-> e.message, analysis_attempted_at |-> t]

\* what a call returns, or [raised |-> ...] for an exception that leaves it
run_complete_analysis(u, missing, t) ==
    LET e == FirstRaised(u, missing, 1)
        life_expectancy == predict_life_expectancy(u, t)
        health_risks == calculate_health_risks(u, t)
    IN  IF e # None THEN ErrorResults(u, missing, e, t)
        ELSE [user_id |-> u.user_profile.user_id,
              life_expectancy |-> life_expectancy,
              biological_age |-> calculate_biological_age(u, t),
              health_risks |-> health_risks,
              recommendations |->
                  generate_recommendations(u, life_expectancy, health_risks, t),
              status |-> "success",
              analysis_completed_at |-> t]

\* a call of run_complete_analysis on the mapping that lacks the keys `absent`
RunCompleteAnalysis ==
    /\ analysis = None
    /\ \E t \in ClockReadings :
          /\ analysis' = run_complete_analysis(user, absent, t)
          /\ now' = t
    /\ UNCHANGED <<user, absent, rng, before, applied, heap, scenarioOut,
                   prevScenarioOut, generated>>
    /\ UNCHANGED predictorVars
    /\ UNCHANGED serviceVars

\* the categorical inputs of predict_life_expectancy and a label outside
\* every vocabulary
LookupFields ==
    <<"smoking_status", "alcohol_frequency", "stress_level", "quality",
      "processed_food_frequency">>

UnlistedLabel == "Unlisted"

\* mappings handed to the analysis: generated records, records with one label
\* outside its vocabulary, and records with an HDL of 0
RunUsers ==
    BaseUsers
    \cup {SetField(b, LookupFields[i], UnlistedLabel) :
             b \in BaseUsers, i \in 1..Len(LookupFields)}
    \cup {SetField(b, "hdl", 0) : b \in BaseUsers}

MaxAbsent == 1

InitRun ==
    /\ user \in RunUsers
    /\ now = 0
    /\ PredictorIdle
    /\ absent \in {m \in SUBSET ({ReadOrder[i] : i \in 1..Len(ReadOrder)} \ {"hdl"}) :
                      Cardinality(m) <= MaxAbsent}
    /\ analysis = None
    /\ MutatorIdle
    /\ ScenarioIdle
    /\ rng = None
    /\ generated = None
    /\ ServiceIdle

SpecRun == InitRun /\ [][RunCompleteAnalysis]_vars

(***************************************************************************)
(* The pseudo random generator of the random module.  Its state after      *)
(* random.seed(seed) is a function of the seed and every draw advances it; *)
(* the generator is modelled as a linear congruential one of full period.  *)
(***************************************************************************)
Modulus == 8

\* random.seed(seed)
Seeded(seed) == seed % Modulus

\* the state after k draws from state r
RECURSIVE Skip(_, _)
Skip(r, k) == IF k = 0 THEN r ELSE Skip((5 * r + 3) % Modulus, k - 1)

\* random.uniform(a, b) as draw k + 1 from state r: a + (b - a) * random()
Uniform(r, k, a, b) == a + Mul(b - a, (Skip(r, k) * Scale) \div Modulus)

\* random.choice(seq) as draw k + 1 from state r
Choice(r, k, seq) == seq[((Skip(r, k) * Len(seq)) \div Modulus) + 1]

(***************************************************************************)
(* The scenario functions of SimulationRunner.  Each takes the record and  *)
(* the state of the generator and yields the modified record and the       *)
(* state after its draws.                                                  *)
(***************************************************************************)
\* weight_kg and bmi after losing the fraction `factor` of the weight
LoseWeight(u, factor) ==
    LET new_weight == Mul(u.user_profile.weight_kg, Scale - factor)
        height_m == u.user_profile.height_cm \div 100
    IN  [u EXCEPT !.user_profile.weight_kg = Round1(new_weight),
                  !.user_profile.bmi = Round1(Div(new_weight, Mul(height_m, height_m)))]

_apply_improved_diet_scenario(u, r) ==
    LET overweight == u.user_profile.bmi > Num(25)
        k == IF overweight THEN 1 ELSE 0
        u1 == IF overweight
              THEN LoseWeight(u, Uniform(r, 0, Hundredths(5), Hundredths(10)))
              ELSE u
        chol_improvement == Uniform(r, k, Hundredths(10), Hundredths(15))
        glucose_improvement == Uniform(r, k + 1, Hundredths(5), Hundredths(10))
    IN  [data |->
            [u1 EXCEPT
                !.lifestyle_data.diet.type = "Mediterranean",
                !.lifestyle_data.diet.fruit_veg_servings_daily = Min(@ + 3, 7),
                !.lifestyle_data.diet.processed_food_frequency = "Rarely",
                !.health_metrics.cholesterol.total =
                    RoundTo(Mul(@, Scale - chol_improvement), Scale),
                !.health_metrics.cholesterol.ldl =
                    RoundTo(Mul(@, Scale - Mul(chol_improvement, Tenths(12))), Scale),
                !.health_metrics.cholesterol.hdl =
                    RoundTo(Mul(@, Scale + Mul(chol_improvement, Tenths(5))), Scale),
                !.health_metrics.fasting_glucose =
                    IF @ > Num(85)
                    THEN RoundTo(@ - Mul(@ - Num(85), glucose_improvement), Scale)
                    ELSE @,
                !.health_metrics.hba1c =
                    IF @ > Num(5)
                    THEN Round1(@ - Mul(@ - Num(5), glucose_improvement))
                    ELSE @],
         rng |-> Skip(r, k + 2)]

\* the exercise types after the balancing step, which appends a choice from
\* each category none of whose types is there, with the number of draws made
BalancedTypes(types, r) ==
    LET cardio == <<"Walking", "Running", "Cycling", "Swimming", "HIIT">>
        strength == <<"Weight Training", "HIIT">>
        flexibility == <<"Yoga", "Pilates">>
        AnyIn(new_types, category) ==
            \E i \in 1..Len(new_types) :
                \E j \in 1..Len(category) : new_types[i] = category[j]
        AddFrom(st, category) ==
            IF AnyIn(st.types, category) THEN st
            ELSE [types |-> Append(st.types, Choice(r, st.draws, category)),
                  draws |-> st.draws + 1]
    IN  IF Len(types) < 3
        THEN AddFrom(AddFrom(AddFrom([types |-> types, draws |-> 0], cardio),
                             strength), flexibility)
        ELSE [types |-> types, draws |-> 0]

\* the resting heart rate after the exercise program, with a slip: no floor
ExerciseHeartRateUnfloored(hr, heart_rate_reduction) == hr - heart_rate_reduction

\* max(55, resting_heart_rate - heart_rate_reduction)
ExerciseHeartRate(hr, heart_rate_reduction) == Max(Num(55), hr - heart_rate_reduction)

_apply_exercise_program_scenario(u, r) ==
    LET balanced == BalancedTypes(u.lifestyle_data.exercise.types, r)
        k == balanced.draws
        u1 == [u EXCEPT
                !.lifestyle_data.exercise.minutes_per_week =
                    IF @ < 150 THEN Max(150, @ * 2) ELSE Min(300, (@ * 3) \div 2),
                !.lifestyle_data.exercise.types = balanced.types,
                !.health_metrics.resting_heart_rate =
                    ExerciseHeartRate(@, Uniform(r, k, Num(5), Num(15))),
                !.health_metrics.blood_pressure.systolic =
                    Max(Num(110), @ - Uniform(r, k + 1, Num(3), Num(10))),
                !.health_metrics.blood_pressure.diastolic =
                    Max(Num(70), @ - Uniform(r, k + 2, Num(2), Num(6))),
                !.health_metrics.vo2_max = @ + Uniform(r, k + 3, Num(10), Num(20)),
                !.health_metrics.body_fat_percentage =
                    Max(IF u.user_profile.gender = "Male" THEN Num(10) ELSE Num(15),
                        @ - Uniform(r, k + 4, Num(1), Num(4)))]
        overweight == u.user_profile.bmi > Num(25)
    IN  [data |-> IF overweight
                  THEN LoseWeight(u1, Uniform(r, k + 5, Hundredths(3), Hundredths(8)))
                  ELSE u1,
         rng |-> Skip(r, k + (IF overweight THEN 6 ELSE 5))]

\* reverse_map[max(0, stress_map[label] - 1)], for a label of stress_map
StressDown(label) ==
    CASE label = "Low" -> "Low"
      [] label = "Moderate" -> "Low"
      [] label = "High" -> "Moderate"
      [] label = "Very High" -> "High"
      [] OTHER -> label

\* reverse_sleep_map[min(3, max(floor, sleep_map[label] + 1))], for a label of
\* sleep_map
SleepUp(label, floor) ==
    LET sleep_map == [Poor |-> 0, Fair |-> 1, Good |-> 2, Excellent |-> 3]
        reverse_sleep_map == <<"Poor", "Fair", "Good", "Excellent">>
    IN  IF label \in DOMAIN sleep_map
        THEN reverse_sleep_map[Min(3, Max(floor, sleep_map[label] + 1)) + 1]
        ELSE label

_apply_stress_reduction_scenario(u, r) ==
    [data |->
        [u EXCEPT
            !.lifestyle_data.stress_level = StressDown(@),
            !.lifestyle_data.sleep.quality = SleepUp(@, 0),
            !.lifestyle_data.sleep.average_hours =
                IF @ < Num(7) THEN Min(Num(8), @ + Tenths(5)) ELSE @,
            !.health_metrics.blood_pressure.systolic =
                Max(Num(110), @ - Uniform(r, 0, Num(2), Num(8))),
            !.health_metrics.blood_pressure.diastolic =
                Max(Num(70), @ - Uniform(r, 1, Num(1), Num(5))),
            !.health_metrics.resting_heart_rate =
                Max(Num(60), @ - Uniform(r, 2, Num(2), Num(8)))],
     rng |-> Skip(r, 3)]

_apply_sleep_optimization_scenario(u, r) ==
    LET hours == u.lifestyle_data.sleep.average_hours
        k == IF hours < Num(7) \/ hours > Num(9) THEN 1 ELSE 0
    IN  [data |->
            [u EXCEPT
                !.lifestyle_data.sleep.average_hours =
                    IF @ < Num(7) THEN Uniform(r, 0, Num(7), Num(8))
                    ELSE IF @ > Num(9) THEN Uniform(r, 0, Tenths(75), Tenths(85))
                    ELSE @,
                !.lifestyle_data.sleep.quality = SleepUp(@, 2),
                !.lifestyle_data.stress_level = StressDown(@),
                !.health_metrics.resting_heart_rate =
                    Max(Num(60), @ - Uniform(r, k, Num(2), Num(5))),
                !.health_metrics.blood_pressure.systolic =
                    Max(Num(110), @ - Uniform(r, k + 1, Num(1), Num(5))),
                !.health_metrics.blood_pressure.diastolic =
                    Max(Num(70), @ - Uniform(r, k + 2, Num(1), Num(3))),
                !.health_metrics.fasting_glucose =
                    IF @ > Num(85)
                    THEN Max(Num(85), @ - Uniform(r, k + 3, Num(1), Num(3)))
                    ELSE @],
         rng |-> Skip(r, k + 4)]

\* the early return of _apply_quit_smoking_scenario, with a slip: only a
\* record that never smoked returns early
NotCurrentOnlyNever(u) == Lower(u.user_profile.smoking_status) = "never"

\* user_data["user_profile"]["smoking_status"].lower() != "current"
NotCurrent(u) == Lower(u.user_profile.smoking_status) # "current"

_apply_quit_smoking_scenario(u, r) ==
    IF NotCurrent(u) THEN [data |-> u, rng |-> r]
    ELSE LET chol_improvement == Uniform(r, 4, Hundredths(5), Hundredths(10))
         IN  [data |->
                [u EXCEPT
                    !.user_profile.smoking_status = "Former",
                    !.health_metrics.resting_heart_rate =
                        Max(Num(60), @ - Uniform(r, 0, Num(5), Num(12))),
                    !.health_metrics.blood_pressure.systolic =
                        Max(Num(110), @ - Uniform(r, 1, Num(5), Num(12))),
                    !.health_metrics.blood_pressure.diastolic =
                        Max(Num(70), @ - Uniform(r, 2, Num(3), Num(8))),
                    !.health_metrics.vo2_max = @ + Uniform(r, 3, Num(5), Num(15)),
                    !.health_metrics.cholesterol.total =
                        Max(Num(150), Mul(@, Scale - chol_improvement)),
                    !.health_metrics.cholesterol.ldl =
                        Max(Num(70), Mul(@, Scale - chol_improvement))],
              rng |-> Skip(r, 5)]

\* the adjustments of _apply_optimal_lifestyle_scenario that follow the
\* individual scenarios
SynergyAdjustments(u, r) ==
    LET overweight == u.user_profile.bmi > Num(25)
        k == IF overweight THEN 1 ELSE 0
        u1 == IF overweight
              THEN LoseWeight(u, Uniform(r, 0, Hundredths(5), Hundredths(12)))
              ELSE u
        chol_improvement == Uniform(r, k + 2, Hundredths(5), Hundredths(10))
        bio_age_reduction == Uniform(r, k + 3, Num(3), Num(8))
        chrono_age == Num(u.impedance_data.chronological_age)
    IN  [data |->
            [u1 EXCEPT
                !.user_profile.alcohol_frequency =
                    IF Lower(@) = "frequent" THEN "Moderate" ELSE @,
                !.health_metrics.body_fat_percentage =
                    Max(IF u.user_profile.gender = "Male" THEN Num(10) ELSE Num(15),
                        @ - Uniform(r, k, Num(2), Num(5))),
                !.health_metrics.vo2_max = @ + Uniform(r, k + 1, Num(5), Num(10)),
                !.health_metrics.cholesterol.total =
                    Max(Num(150), Mul(@, Scale - chol_improvement)),
                !.health_metrics.cholesterol.ldl =
                    Max(Num(70), Mul(@, Scale - chol_improvement)),
                !.health_metrics.cholesterol.hdl =
                    Min(Num(90), Mul(@, Scale + chol_improvement)),
                !.impedance_data.estimated_biological_age =
                    IF @ > chrono_age
                    THEN Max(chrono_age - Num(5), @ - bio_age_reduction)
                    ELSE @ - bio_age_reduction \div 2],
         rng |-> Skip(r, k + 4)]

\* the individual scenarios of the optimal lifestyle, with a slip: smoking is
\* not dealt with
IndividualScenariosKeepSmoking(u, r) ==
    LET diet == _apply_improved_diet_scenario(u, r)
        exercise == _apply_exercise_program_scenario(diet.data, diet.rng)
        stress == _apply_stress_reduction_scenario(exercise.data, exercise.rng)
    IN  _apply_sleep_optimization_scenario(stress.data, stress.rng)

\* the calls of the individual scenarios in _apply_optimal_lifestyle_scenario,
\* each on the record and the generator the call before left
IndividualScenarios(u, r) ==
    LET diet == _apply_improved_diet_scenario(u, r)
        exercise == _apply_exercise_program_scenario(diet.data, diet.rng)
        stress == _apply_stress_reduction_scenario(exercise.data, exercise.rng)
        sleep == _apply_sleep_optimization_scenario(stress.data, stress.rng)
    IN  IF Lower(sleep.data.user_profile.smoking_status) = "current"
        THEN _apply_quit_smoking_scenario(sleep.data, sleep.rng)
        ELSE sleep

_apply_optimal_lifestyle_scenario(u, r) ==
    LET individual == IndividualScenarios(u, r)
    IN  SynergyAdjustments(individual.data, individual.rng)

(***************************************************************************)
(* Scenario functions applied one after another to a record                *)
(***************************************************************************)
MaxSeed == 3

MaxApplied == 3

\* records the scenario functions are applied to: smokers and non-smokers
\* with resting heart rates below, between and above the floors, with and
\* without frequent drinking
MutUsers ==
    {SetField(SetField(SetField(b, "smoking_status", s), "resting_heart_rate", h),
              "alcohol_frequency", a) :
        b \in BaseUsers, s \in Dom.smoking_status,
        h \in {Num(50), Num(58), Num(78)}, a \in {"Rare", "Frequent"}}

InitMut ==
    /\ user \in MutUsers
    /\ now = 0
    /\ PredictorIdle
    /\ RunIdle
    /\ rng \in {Seeded(seed) : seed \in 0..MaxSeed}
    /\ MutatorIdle
    /\ ScenarioIdle
    /\ generated = None
    /\ ServiceIdle

\* the effect of a call of the scenario function called `name` with the
\* outcome st
Applied(name, st) ==
    /\ user' = st.data
    /\ rng' = st.rng
    /\ before' = [data |-> user, rng |-> rng]
    /\ applied' = Append(applied, name)
    /\ UNCHANGED <<now, absent, analysis, heap, scenarioOut, prevScenarioOut, generated>>
    /\ UNCHANGED predictorVars
    /\ UNCHANGED serviceVars

ApplyImprovedDiet ==
    /\ Len(applied) < MaxApplied
    /\ Applied("improved_diet", _apply_improved_diet_scenario(user, rng))

ApplyExerciseProgram ==
    /\ Len(applied) < MaxApplied
    /\ Applied("exercise_program", _apply_exercise_program_scenario(user, rng))

ApplyStressReduction ==
    /\ Len(applied) < MaxApplied
    /\ Applied("stress_reduction", _apply_stress_reduction_scenario(user, rng))

ApplySleepOptimization ==
    /\ Len(applied) < MaxApplied
    /\ Applied("sleep_optimization", _apply_sleep_optimization_scenario(user, rng))

ApplyQuitSmoking ==
    /\ Len(applied) < MaxApplied
    /\ Applied("quit_smoking", _apply_quit_smoking_scenario(user, rng))

ApplyOptimalLifestyle ==
    /\ Len(applied) < MaxApplied
    /\ Applied("optimal_lifestyle", _apply_optimal_lifestyle_scenario(user, rng))

NextMut ==
    \/ ApplyImprovedDiet
    \/ ApplyExerciseProgram
    \/ ApplyStressReduction
    \/ ApplySleepOptimization
    \/ ApplyQuitSmoking
    \/ ApplyOptimalLifestyle

SpecMut == InitMut /\ [][NextMut]_vars

\* generate_lifestyle_data draws minutes_per_week from 0 up to
\* random.randint(300, 600) for a very active user
MaxExerciseMinutes == 600

\* records with every number of exercise minutes the generator can produce
InitExercise ==
    /\ user \in {[b EXCEPT !.lifestyle_data.exercise.minutes_per_week = minutes] :
                    b \in BaseUsers, minutes \in 0..MaxExerciseMinutes}
    /\ now = 0
    /\ PredictorIdle
    /\ RunIdle
    /\ rng \in {Seeded(seed) : seed \in 0..MaxSeed}
    /\ MutatorIdle
    /\ ScenarioIdle
    /\ generated = None
    /\ ServiceIdle

\* exercise_program, applied up to MaxApplied times to such a record
SpecExercise == InitExercise /\ [][ApplyExerciseProgram]_vars

(***************************************************************************)
(* SimulationRunner.run_scenario_simulation.  A record is a mapping from   *)
(* the five section names to dict objects; a scenario function writes into *)
(* the section objects of the mapping it is given, so that two mappings    *)
(* that hold the same object both show the write.                          *)
(***************************************************************************)
Sections ==
    <<"user_profile", "health_metrics", "impedance_data", "lifestyle_data",
      "genetic_data">>

\* the objects are kept in a sequence and an object's address is its place
\* in it; refs maps the section names of a mapping to addresses.
\* the objects of a record freshly read from its data file
Loaded(u) ==
    [objects |-> [i \in 1..Len(Sections) |-> u[Sections[i]]],
     refs |-> [user_profile |-> 1, health_metrics |-> 2, impedance_data |-> 3,
               lifestyle_data |-> 4, genetic_data |-> 5]]

\* the record a mapping shows
Deref(objects, refs) ==
    [user_profile |-> objects[refs.user_profile],
     health_metrics |-> objects[refs.health_metrics],
     impedance_data |-> objects[refs.impedance_data],
     lifestyle_data |-> objects[refs.lifestyle_data],
     genetic_data |-> objects[refs.genetic_data]]

\* the objects after the sections of a mapping have been written to
Store(objects, refs, u) ==
    [a \in 1..Len(objects) |->
        IF a = refs.user_profile THEN u.user_profile
        ELSE IF a = refs.health_metrics THEN u.health_metrics
        ELSE IF a = refs.impedance_data THEN u.impedance_data
        ELSE IF a = refs.lifestyle_data THEN u.lifestyle_data
        ELSE IF a = refs.genetic_data THEN u.genetic_data
        ELSE objects[a]]

\* a copy of the mapping that holds the same section objects, as dict(user_data)
\* makes it
shallow_copy(objects, refs) == [objects |-> objects, refs |-> refs]

\* json.loads(json.dumps(user_data)): every section is serialised and parsed
\* into a new object; the strings, numbers, lists and string-keyed dicts of a
\* record come back with the values that went in
json_copy(objects, refs) ==
    [objects |-> objects \o [i \in 1..Len(Sections) |-> objects[refs[Sections[i]]]],
     refs |-> [user_profile |-> Len(objects) + 1, health_metrics |-> Len(objects) + 2,
               impedance_data |-> Len(objects) + 3, lifestyle_data |-> Len(objects) + 4,
               genetic_data |-> Len(objects) + 5]]

ScenarioNames ==
    {"improved_diet", "exercise_program", "stress_reduction", "sleep_optimization",
     "quit_smoking", "optimal_lifestyle", "unknown"}

\* the if / elif chain on the scenario name
ApplyScenario(scenario, u, r) ==
    CASE scenario = "improved_diet" -> _apply_improved_diet_scenario(u, r)
      [] scenario = "exercise_program" -> _apply_exercise_program_scenario(u, r)
      [] scenario = "stress_reduction" -> _apply_stress_reduction_scenario(u, r)
      [] scenario = "sleep_optimization" -> _apply_sleep_optimization_scenario(u, r)
      [] scenario = "quit_smoking" -> _apply_quit_smoking_scenario(u, r)
      [] scenario = "optimal_lifestyle" -> _apply_optimal_lifestyle_scenario(u, r)
      [] OTHER -> [data |-> u, rng |-> r]

\* the heap and the generator after the scenario function has written to
\* the mapping `copy`
AppliedToCopy(copy, scenario, r) ==
    [objects |->
        Store(copy.objects, copy.refs,
              ApplyScenario(scenario, Deref(copy.objects, copy.refs), r).data),
     scenario |-> copy.refs,
     rng |-> ApplyScenario(scenario, Deref(copy.objects, copy.refs), r).rng]

\* the analysis of scenario_data and the comparison; original_analysis and
\* comparison, which are read from the analysis file, are left out
Comparison(user_id, scenario, original, h, t) ==
    [comparison |->
        [user_id |-> user_id,
         scenario |-> scenario,
         original_data |-> Deref(h.objects, original),
         scenario_data |-> Deref(h.objects, h.scenario),
         scenario_analysis |->
             run_complete_analysis(Deref(h.objects, h.scenario), {}, t),
         generated_at |-> t],
     objects |-> h.objects,
     original |-> original,
     scenario |-> h.scenario,
     rng |-> h.rng]

\* what a call returns for the record u stored in the data file, with the
\* generator in state r and the clock reading t, and the heap and the
\* generator it leaves
run_scenario_simulation(u, scenario, r, t) ==
    Comparison(u.user_profile.user_id, scenario, Loaded(u).refs,
               AppliedToCopy(json_copy(Loaded(u).objects, Loaded(u).refs), scenario, r),
               t)

\* the state of the generator that DataGenerator.__init__ leaves, with a
\* slip: the seed is not applied
AfterInitUnseeded(r, seed) == r

\* the state of the generator that DataGenerator.__init__ leaves; the seed is
\* an Optional[int], None or [value |-> n]
AfterInit(r, seed) == IF seed # None THEN Seeded(seed.value) ELSE r

\* SimulationRunner(config): the program is started with its configuration
Construct ==
    /\ prevScenarioOut = None
    /\ IF applied = <<>> THEN TRUE ELSE applied[Len(applied)] # "construct"
    /\ rng' = AfterInit(rng, heap.config.random_seed)
    /\ applied' = Append(applied, "construct")
    /\ UNCHANGED <<user, now, absent, analysis, before, heap, scenarioOut,
                   prevScenarioOut, generated>>
    /\ UNCHANGED predictorVars
    /\ UNCHANGED serviceVars

\* a call of run_scenario_simulation for the stored record
RunScenario ==
    /\ applied # <<>>
    /\ prevScenarioOut = None
    /\ \E scenario \in ScenarioNames, t \in ClockReadings :
          \E out \in {run_scenario_simulation(user, scenario, rng, t)} :
              /\ scenarioOut' = out.comparison
              /\ prevScenarioOut' = scenarioOut
              /\ heap' = [config |-> heap.config, objects |-> out.objects,
                          original |-> out.original, scenario |-> out.scenario]
              /\ rng' = out.rng
              /\ before' = [data |-> user, rng |-> rng]
              /\ applied' = Append(applied, scenario)
              /\ now' = t
    /\ UNCHANGED <<user, absent, analysis, generated>>
    /\ UNCHANGED predictorVars
    /\ UNCHANGED serviceVars

\* stored records: a smoker and a non-smoker, each with a resting heart rate
\* below and above the floors
ScenarioUsers ==
    {SetField(b, "resting_heart_rate", h) : b \in BaseUsers, h \in {Num(58), Num(78)}}

\* the program has been loaded: the generator is in the state the operating
\* system's entropy gave it
InitScenario ==
    /\ user \in ScenarioUsers
    /\ now = 0
    /\ PredictorIdle
    /\ RunIdle
    /\ MutatorIdle
    /\ rng \in {0, Modulus - 1}
    /\ heap \in {[config |-> [random_seed |-> seed]] :
                     seed \in {[value |-> n] : n \in 0..MaxSeed} \cup {None}}
    /\ scenarioOut = None
    /\ prevScenarioOut = None
    /\ generated = None
    /\ ServiceIdle

NextScenario == Construct \/ RunScenario

SpecScenario == InitScenario /\ [][NextScenario]_vars

(***************************************************************************)
(* DataGenerator.generate_health_metrics, its cholesterol values.  A draw  *)
(* np.random.normal(mean, sd) is mean + sd * z for a standard normal       *)
(* deviate z, which has no bound; the deviates taken are the whole numbers *)
(* up to MaxSigma either way.                                              *)
(***************************************************************************)
MaxSigma == 6

normal(mean, sd, z) == mean + sd * z

\* the cholesterol entry of the health metrics generated for a profile, with
\* the deviates z.total, z.hdl and z.triglycerides of the three draws
generate_health_metrics(user_profile, z) ==
    LET age_factor_of_chol == Max(0, user_profile.age - 20) * (Scale \div 2)
        bmi_factor_of_chol == Max(0, user_profile.bmi - Num(25)) * 2
        cholesterol ==
            RoundTo(normal(Num(170) + age_factor_of_chol + bmi_factor_of_chol, Num(15), z.total),
                    Scale)
        hdl_base == IF user_profile.gender = "Female" THEN Num(50) ELSE Num(40)
        hdl == Min(RoundTo(normal(hdl_base, Num(8), z.hdl), Scale), cholesterol - Num(50))
        ldl == Max(cholesterol - hdl
                       - RoundTo(normal(Num(30), Num(5), z.triglycerides), Scale),
                   Num(30))
    IN  [user_id |-> user_profile.user_id,
         cholesterol |-> [total |-> cholesterol, hdl |-> hdl, ldl |-> ldl]]

\* a call of generate_health_metrics(user_profile)
GenerateHealthMetrics ==
    /\ generated = None
    /\ \E total, hdl, triglycerides \in -MaxSigma..MaxSigma :
          generated' = generate_health_metrics(user.user_profile,
                          [total |-> total, hdl |-> hdl, triglycerides |-> triglycerides])
    /\ UNCHANGED <<user, now, absent, analysis, rng, before, applied, heap,
                   scenarioOut, prevScenarioOut>>
    /\ UNCHANGED predictorVars
    /\ UNCHANGED serviceVars

InitGen ==
    /\ user \in {SetField(SetField(b, "gender", g), "age", a) :
                    b \in BaseUsers, g \in Dom.gender, a \in Dom.age}
    /\ now = 0
    /\ PredictorIdle
    /\ OtherIdle

SpecGen == InitGen /\ [][GenerateHealthMetrics]_vars

(***************************************************************************)
(* ModelManager (src/ai_analysis/model_manager.py).  self.models is a dict *)
(* and keeps the order in which its keys were inserted: it is a sequence   *)
(* of entries, one per key, each holding the model object's loaded flag    *)
(* and last_used stamp.  time.time() is read from the wall clock now; two  *)
(* readings may be equal.  Each thread executes one call at a time, a      *)
(* statement at a time; a step of the model is the stretch of a call       *)
(* between two accesses to self.models or self.lock.                       *)
(***************************************************************************)
MaxThreads == 2
MaxLoaded == 2
MaxTick == 3
MaxCalls == 4
MaxThreadCalls == 2

\* create_model_manager's registry: model_id, model_type, updated_at
model_registry ==
    <<[model_id |-> "health_state_analyzer_v1", model_type |-> "DeepLearningHealth",
       updated_at |-> 0],
      [model_id |-> "aging_rate_analyzer_v1", model_type |-> "MachineLearningAging",
       updated_at |-> 0],
      [model_id |-> "disease_risk_analyzer_v1", model_type |-> "MachineLearningDisease",
       updated_at |-> 0]>>

RegisteredIds == {model_registry[i].model_id : i \in DOMAIN model_registry}
ModelIds == RegisteredIds \cup {"unregistered_v1"}
ModelTypes == {"deeplearninghealth", "MachineLearningAging", "FinancialModel"}

\* self.model_registry.get(model_id) is not None
get_model_info(model_id) == model_id \in RegisteredIds

\* model_type.lower(), for the type names in use
LowerType(model_type) ==
    CASE model_type = "DeepLearningHealth" -> "deeplearninghealth"
      [] model_type = "MachineLearningAging" -> "machinelearningaging"
      [] model_type = "MachineLearningDisease" -> "machinelearningdisease"
      [] model_type = "FinancialModel" -> "financialmodel"
      [] OTHER -> model_type

\* the id of sorted(models, key=updated_at, reverse=True)[0] over the
\* registered models of a type, or None; the sort is stable
get_latest_model(model_type) ==
    LET of_type == SelectSeq(model_registry,
                      LAMBDA info : LowerType(info.model_type) = LowerType(model_type))
        newest == {i \in DOMAIN of_type :
                      \A j \in DOMAIN of_type : of_type[j].updated_at <= of_type[i].updated_at}
    IN  IF of_type = <<>> THEN None
        ELSE [model_id |-> of_type[CHOOSE i \in newest : \A j \in newest : i <= j].model_id]

\* dict operations on self.models
Keys(models) == [i \in DOMAIN models |-> models[i].model_id]
Has(models, model_id) == \E i \in DOMAIN models : models[i].model_id = model_id
IndexOf(models, model_id) == CHOOSE i \in DOMAIN models : models[i].model_id = model_id
Lookup(models, model_id) == models[IndexOf(models, model_id)]
Put(models, model) ==
    IF Has(models, model.model_id)
    THEN [models EXCEPT ![IndexOf(models, model.model_id)] = model]
    ELSE Append(models, model)
Del(models, model_id) == SelectSeq(models, LAMBDA model : model.model_id # model_id)

\* with a slip: the keys in dict order, whatever their stamps
unsorted_models(models) == Keys(models)

\* sorted(self.models.items(), key=lambda x: x[1].last_used): the keys, oldest
\* stamp first, equal stamps in dict order
RECURSIVE sorted_models(_)
sorted_models(models) ==
    IF models = <<>> THEN <<>>
    ELSE LET oldest == CHOOSE i \in DOMAIN models :
                          /\ \A j \in DOMAIN models : models[i].last_used <= models[j].last_used
                          /\ \A j \in 1..(i - 1) : models[j].last_used # models[i].last_used
         IN  <<models[oldest].model_id>>
                 \o sorted_models(Del(models, models[oldest].model_id))

\* len(self.models) <= self.max_loaded_models
AtOrUnderLimit(m) == Len(m.models) <= m.max_loaded_models

\* len(self.models) < self.max_loaded_models
UnderLimit(m) == Len(m.models) < m.max_loaded_models

\* a thread that is in no call, and the frame of a call that has just begun
NoCall ==
    [op |-> "none", pc |-> "done", model_id |-> "", target |-> "", pending |-> <<>>,
     after_load |-> "done", after_unload |-> "done", model |-> None, before |-> <<>>,
     raised |-> "", returned |-> "", left |-> 0]

Frame(t, op, pc) ==
    [NoCall EXCEPT !.op = op, !.pc = pc, !.before = manager.models,
                   !.left = calls[t].left - 1]

\* time.time(): the wall clock has not gone back since its last reading
Readings == now .. (IF now < MaxTick THEN now + 1 ELSE MaxTick)

\* the call is over: its locals are gone, what it was and how it ended stays
Over(frame) ==
    [frame EXCEPT !.pc = "done", !.pending = <<>>, !.model = None,
                  !.after_load = "done", !.after_unload = "done",
                  !.target = IF frame.op = "unload_model" THEN frame.target ELSE ""]

\* the call returns to the thread
Return(frame, result) == [Over(frame) EXCEPT !.returned = result]

\* the call raises: the exception leaves every frame up to the thread's
Raise(frame, exception) == [Over(frame) EXCEPT !.raised = exception]

\* load_model returns to its caller, which is predict (lines 460-464) or the
\* thread itself
LoadReturned(frame, result) ==
    IF frame.after_load = "done" THEN Return(frame, result)
    ELSE IF result = "None" THEN Raise(frame, "ValueError")
    ELSE [frame EXCEPT !.pc = "predict"]

\* unload_model returns to its caller: _manage_loaded_models (line 456),
\* unload_all (line 477) or the thread itself
UnloadReturned(frame, result) ==
    IF frame.after_unload = "done" THEN Return(frame, result)
    ELSE [frame EXCEPT !.pc = frame.after_unload]

\* the thread is in no call and has calls left to make
Ready(t) == calls[t].pc = "done" /\ calls[t].left > 0

\* what no ModelManager call touches
notManagerVars ==
    <<user, life, bioAge, risks, recs, prevRecs, riskIn, catOut, absent, analysis, rng,
      before, applied, heap, scenarioOut, prevScenarioOut, generated,
      collector, loops, edge>>

\* a thread calls load_model(model_id)
CallLoadModel ==
    \E t \in DOMAIN calls, model_id \in ModelIds :
        /\ Ready(t)
        /\ calls' = [calls EXCEPT ![t] =
                        [Frame(t, "load_model", "check") EXCEPT !.model_id = model_id]]
        /\ UNCHANGED <<manager, now>>
        /\ UNCHANGED notManagerVars

\* a thread calls unload_model(model_id)
CallUnloadModel ==
    \E t \in DOMAIN calls, model_id \in ModelIds :
        /\ Ready(t)
        /\ calls' = [calls EXCEPT ![t] =
                        [Frame(t, "unload_model", "u_check") EXCEPT !.target = model_id]]
        /\ UNCHANGED <<manager, now>>
        /\ UNCHANGED notManagerVars

\* a thread calls predict(model_id, data), which begins with load_model
CallPredict ==
    \E t \in DOMAIN calls, model_id \in ModelIds :
        /\ Ready(t)
        /\ calls' = [calls EXCEPT ![t] =
                        [Frame(t, "predict", "check") EXCEPT !.model_id = model_id,
                                                          !.after_load = "predict"]]
        /\ UNCHANGED <<manager, now>>
        /\ UNCHANGED notManagerVars

\* a thread calls predict_with_latest(model_type, data)
CallPredictWithLatest ==
    \E t \in DOMAIN calls, model_type \in ModelTypes :
        /\ Ready(t)
        /\ calls' = [calls EXCEPT ![t] =
                        IF get_latest_model(model_type) = None
                        THEN Raise(Frame(t, "predict_with_latest", "done"), "ValueError")
                        ELSE [Frame(t, "predict_with_latest", "check") EXCEPT
                                 !.model_id = get_latest_model(model_type).model_id,
                                 !.after_load = "predict"]]
        /\ UNCHANGED <<manager, now>>
        /\ UNCHANGED notManagerVars

\* a thread calls unload_all(), which copies the keys of self.models
CallUnloadAll ==
    \E t \in DOMAIN calls :
        /\ Ready(t)
        /\ calls' = [calls EXCEPT ![t] =
                        [Frame(t, "unload_all", "all") EXCEPT !.pending = Keys(manager.models)]]
        /\ UNCHANGED <<manager, now>>
        /\ UNCHANGED notManagerVars

\* load_model, lines 386 and 394-413: the membership test and, for a
\* registered model that is not in self.models, a new model object, loaded
LoadCheck ==
    \E t \in DOMAIN calls :
        /\ calls[t].pc = "check"
        /\ IF Has(manager.models, calls[t].model_id)
           THEN calls' = [calls EXCEPT ![t].pc = "hit"] /\ now' = now
           ELSE IF ~get_model_info(calls[t].model_id)
           THEN calls' = [calls EXCEPT ![t] = LoadReturned(calls[t], "None")] /\ now' = now
           ELSE \E reading \in Readings :
                   /\ now' = reading
                   /\ calls' = [calls EXCEPT ![t].pc = "manage",
                                             ![t].model = [model_id |-> calls[t].model_id,
                                                           loaded |-> TRUE,
                                                           last_used |-> reading]]
        /\ UNCHANGED manager
        /\ UNCHANGED notManagerVars

\* load_model, lines 388-392: the model that is already in self.models
LoadHit ==
    \E t \in DOMAIN calls :
        /\ calls[t].pc = "hit"
        /\ IF ~Has(manager.models, calls[t].model_id)
           THEN /\ calls' = [calls EXCEPT ![t] = Raise(calls[t], "KeyError")]
                /\ UNCHANGED <<manager, now>>
           ELSE \E reading \in Readings :
                   /\ now' = reading
                   /\ manager' = [manager EXCEPT !.models =
                                     Put(@, [Lookup(@, calls[t].model_id) EXCEPT
                                                !.loaded = TRUE, !.last_used = reading])]
                   /\ calls' = [calls EXCEPT ![t] = LoadReturned(calls[t], "model")]
        /\ UNCHANGED notManagerVars

\* _manage_loaded_models, lines 442-449
ManageLoadedModels ==
    \E t \in DOMAIN calls :
        /\ calls[t].pc = "manage"
        /\ calls' = [calls EXCEPT ![t] =
                        IF UnderLimit(manager) THEN [calls[t] EXCEPT !.pc = "add"]
                        ELSE [calls[t] EXCEPT !.pc = "evict",
                                              !.pending = sorted_models(manager.models)]]
        /\ UNCHANGED <<manager, now>>
        /\ UNCHANGED notManagerVars

\* _manage_loaded_models, lines 452-456: one turn of the loop
EvictNext ==
    \E t \in DOMAIN calls :
        /\ calls[t].pc = "evict"
        /\ calls' = [calls EXCEPT ![t] =
                        IF calls[t].pending = <<>> \/ UnderLimit(manager)
                        THEN [calls[t] EXCEPT !.pc = "add"]
                        ELSE [calls[t] EXCEPT !.pc = "u_check",
                                              !.target = Head(calls[t].pending),
                                              !.pending = Tail(calls[t].pending),
                                              !.after_unload = "evict"]]
        /\ UNCHANGED <<manager, now>>
        /\ UNCHANGED notManagerVars

\* unload_model, lines 426-428
UnloadCheck ==
    \E t \in DOMAIN calls :
        /\ calls[t].pc = "u_check"
        /\ calls' = [calls EXCEPT ![t] =
                        IF Has(manager.models, calls[t].target)
                        THEN [calls[t] EXCEPT !.pc = "u_get"]
                        ELSE UnloadReturned(calls[t], "False")]
        /\ UNCHANGED <<manager, now>>
        /\ UNCHANGED notManagerVars

\* unload_model, lines 430-431: the dict lookup and model.unload()
UnloadGet ==
    \E t \in DOMAIN calls :
        /\ calls[t].pc = "u_get"
        /\ IF ~Has(manager.models, calls[t].target)
           THEN /\ calls' = [calls EXCEPT ![t] = Raise(calls[t], "KeyError")]
                /\ manager' = manager
           ELSE /\ manager' = [manager EXCEPT !.models =
                                  Put(@, [Lookup(@, calls[t].target) EXCEPT !.loaded = FALSE])]
                /\ calls' = [calls EXCEPT ![t].pc = "u_lock"]
        /\ now' = now
        /\ UNCHANGED notManagerVars

\* with self.lock: (lines 419 and 432)
AcquireLock ==
    \E t \in DOMAIN calls :
        /\ calls[t].pc \in {"u_lock", "add"}
        /\ manager.lock = 0
        /\ manager' = [manager EXCEPT !.lock = t]
        /\ calls' = [calls EXCEPT ![t].pc = IF @ = "add" THEN "add_set" ELSE "u_del"]
        /\ now' = now
        /\ UNCHANGED notManagerVars

\* unload_model, lines 433-435: del self.models[model_id], and the lock is
\* released
UnloadDelete ==
    \E t \in DOMAIN calls :
        /\ calls[t].pc = "u_del"
        /\ manager' = [manager EXCEPT !.models = Del(@, calls[t].target), !.lock = 0]
        /\ calls' = [calls EXCEPT ![t] =
                        IF Has(manager.models, calls[t].target)
                        THEN UnloadReturned(calls[t], "True")
                        ELSE Raise(calls[t], "KeyError")]
        /\ now' = now
        /\ UNCHANGED notManagerVars

\* load_model, lines 420-422: self.models[model_id] = model, and the lock is
\* released
LoadAdd ==
    \E t \in DOMAIN calls :
        /\ calls[t].pc = "add_set"
        /\ manager' = [manager EXCEPT !.models = Put(@, calls[t].model), !.lock = 0]
        /\ calls' = [calls EXCEPT ![t] = LoadReturned(calls[t], "model")]
        /\ now' = now
        /\ UNCHANGED notManagerVars

\* predict, line 464: model.predict(data) loads the model if it is not
\* loaded and stamps it
PredictModel ==
    \E t \in DOMAIN calls :
        /\ calls[t].pc = "predict"
        /\ \E reading \in Readings :
              /\ now' = reading
              /\ manager' = [manager EXCEPT !.models =
                                IF Has(@, calls[t].model_id)
                                THEN Put(@, [Lookup(@, calls[t].model_id) EXCEPT
                                                !.loaded = TRUE, !.last_used = reading])
                                ELSE @]
        /\ calls' = [calls EXCEPT ![t] = Return(calls[t], "prediction")]
        /\ UNCHANGED notManagerVars

\* unload_all, lines 476-477: one turn of the loop
UnloadAllNext ==
    \E t \in DOMAIN calls :
        /\ calls[t].pc = "all"
        /\ calls' = [calls EXCEPT ![t] =
                        IF calls[t].pending = <<>>
                        THEN Return(calls[t], "None")
                        ELSE [calls[t] EXCEPT !.pc = "u_check",
                                              !.target = Head(calls[t].pending),
                                              !.pending = Tail(calls[t].pending),
                                              !.after_unload = "all"]]
        /\ UNCHANGED <<manager, now>>
        /\ UNCHANGED notManagerVars

\* ModelManager(models_directory, max_loaded_models) with the registry above
\* and nothing loaded, used by as many threads as budget has entries; thread
\* t makes at most budget[t] calls
InitManager(budget) ==
    /\ manager \in {[max_loaded_models |-> n, models |-> <<>>, lock |-> 0] :
                       n \in 1..MaxLoaded}
    /\ calls = [t \in DOMAIN budget |-> [NoCall EXCEPT !.left = budget[t]]]
    /\ now = 0
    /\ user \in BaseUsers
    /\ PredictorIdle
    /\ RunIdle /\ MutatorIdle /\ ScenarioIdle /\ rng = None /\ generated = None
    /\ CollectionIdle

\* the steps of load_model and unload_model
LoadUnloadSteps ==
    \/ LoadCheck
    \/ LoadHit
    \/ ManageLoadedModels
    \/ EvictNext
    \/ UnloadCheck
    \/ UnloadGet
    \/ AcquireLock
    \/ UnloadDelete
    \/ LoadAdd

\* every ModelManager call, made by one thread
NextManager ==
    \/ CallLoadModel
    \/ CallUnloadModel
    \/ CallPredict
    \/ CallPredictWithLatest
    \/ CallUnloadAll
    \/ LoadUnloadSteps
    \/ PredictModel
    \/ UnloadAllNext

SpecManager == InitManager(<<MaxCalls>>) /\ [][NextManager]_vars

\* load_model and unload_model calls, made by MaxThreads threads: up to
\* MaxThreadCalls calls by the first and one call by each of the others
NextThreads ==
    \/ CallLoadModel
    \/ CallUnloadModel
    \/ LoadUnloadSteps

SpecThreads == InitManager([t \in 1..MaxThreads |-> IF t = 1 THEN MaxThreadCalls ELSE 1]) /\ [][NextThreads]_vars

(***************************************************************************)
(* DataCollectionModule and its EdgeProcessor                              *)
(*                                                                         *)
(* collector holds the fields of the DataCollectionModule (running,        *)
(* collection_thread, whether its sensors are connected) and the position  *)
(* of the caller of start() and stop(); loops[t] is the position of the    *)
(* t-th _collection_loop thread; edge holds the EdgeProcessor's running    *)
(* flag, the queue of its "health" pipeline, the position of the thread    *)
(* that runs _process_queue for it, the number of readings put on the      *)
(* queue and the readings run through the pipeline.  A configured          *)
(* wearable sensor of sensor_type "health" is assumed, so that each        *)
(* iteration with connected sensors hands one reading to process_data.     *)
(***************************************************************************)
MaxCollectCalls == 3
MaxReadings == 2

notCollectionVars ==
    <<user, now, life, bioAge, risks, recs, prevRecs, riskIn, catOut, absent, analysis,
      rng, before, applied, heap, scenarioOut, prevScenarioOut, generated, manager,
      calls>>

\* thread.join(timeout=...) returns once the thread has ended, or once the
\* timeout has passed while the thread stays at one of the positions `blocked`
Joined(pc, blocked) == pc = "done" \/ pc \in blocked

\* EdgeProcessor.process_data(data, "health"): the pipeline is registered, so
\* the reading is put on its queue
process_data(e) ==
    [e EXCEPT !.put = @ + 1, !.data_queues = Append(@, e.put + 1)]

\* start(): refused while running; otherwise the sensors are connected,
\* running is set and a new _collection_loop thread is started
Start ==
    /\ collector.pc = "idle"
    /\ collector.left > 0
    /\ IF collector.running
       THEN /\ collector' = [collector EXCEPT !.left = @ - 1, !.returned = FALSE]
            /\ UNCHANGED loops
       ELSE /\ collector' = [collector EXCEPT !.left = @ - 1,
                                              !.returned = TRUE,
                                              !.connected = TRUE,
                                              !.running = TRUE,
                                              !.collection_thread = Len(loops) + 1]
            /\ loops' = Append(loops, "check")
    /\ UNCHANGED edge
    /\ UNCHANGED notCollectionVars

\* stop(), up to the join: refused while not running; otherwise running is
\* cleared and the caller waits for the collection thread
Stop ==
    /\ collector.pc = "idle"
    /\ collector.left > 0
    /\ IF ~collector.running
       THEN collector' = [collector EXCEPT !.left = @ - 1, !.returned = FALSE]
       ELSE collector' = [collector EXCEPT !.left = @ - 1,
                                           !.running = FALSE,
                                           !.pc = "join"]
    /\ UNCHANGED <<loops, edge>>
    /\ UNCHANGED notCollectionVars

\* stop(), from the return of collection_thread.join(timeout=5.0): the thread
\* has ended, or it is still in time.sleep(collection_interval), 60 seconds
\* unless configured; then disconnect_all() and the first half of
\* edge_processor.stop()
StopJoin ==
    /\ collector.pc = "join"
    /\ Joined(loops[collector.collection_thread], {"sleep"})
    /\ IF edge.running
       THEN /\ edge' = [edge EXCEPT !.running = FALSE]
            /\ collector' = [collector EXCEPT !.connected = FALSE, !.pc = "edge_join"]
       ELSE /\ collector' = [collector EXCEPT !.connected = FALSE,
                                              !.pc = "idle",
                                              !.returned = TRUE]
            /\ UNCHANGED edge
    /\ UNCHANGED loops
    /\ UNCHANGED notCollectionVars

\* stop(), from the return of the join in edge_processor.stop(): the
\* processing thread has ended; stop() returns True
StopEdgeJoin ==
    /\ collector.pc = "edge_join"
    /\ Joined(edge.thread, {})
    /\ collector' = [collector EXCEPT !.pc = "idle", !.returned = TRUE]
    /\ UNCHANGED <<loops, edge>>
    /\ UNCHANGED notCollectionVars

\* _collection_loop: `while self.running:`
LoopCheck(t) ==
    /\ t \in DOMAIN loops
    /\ loops[t] = "check"
    /\ loops' = [loops EXCEPT ![t] = IF collector.running THEN "iterate" ELSE "done"]
    /\ UNCHANGED <<collector, edge>>
    /\ UNCHANGED notCollectionVars

\* _collection_loop: one iteration, read_all_data() reading the connected
\* sensors only, each reading handed to process_data; the loop goes on
\* after MaxReadings readings, which are the ones followed here
LoopIterate(t) ==
    /\ t \in DOMAIN loops
    /\ loops[t] = "iterate"
    /\ loops' = [loops EXCEPT ![t] = "sleep"]
    /\ edge' = IF collector.connected /\ edge.put < MaxReadings
               THEN process_data(edge)
               ELSE edge
    /\ UNCHANGED collector
    /\ UNCHANGED notCollectionVars

\* _collection_loop: time.sleep(collection_interval) returns
LoopWake(t) ==
    /\ t \in DOMAIN loops
    /\ loops[t] = "sleep"
    /\ loops' = [loops EXCEPT ![t] = "check"]
    /\ UNCHANGED <<collector, edge>>
    /\ UNCHANGED notCollectionVars

\* _process_queue: `while self.running:`
WorkerCheck ==
    /\ edge.thread = "check"
    /\ edge' = [edge EXCEPT !.thread = IF edge.running THEN "get" ELSE "done"]
    /\ UNCHANGED <<collector, loops>>
    /\ UNCHANGED notCollectionVars

\* _process_queue: queue.get(timeout=1.0) and, unless it raised Empty, the
\* pipeline run on the reading
WorkerGet ==
    /\ edge.thread = "get"
    /\ edge' = IF edge.data_queues = <<>>
               THEN [edge EXCEPT !.thread = "check"]
               ELSE [edge EXCEPT !.thread = "check",
                                 !.data_queues = Tail(@),
                                 !.processed = Append(@, Head(edge.data_queues))]
    /\ UNCHANGED <<collector, loops>>
    /\ UNCHANGED notCollectionVars

\* DataCollectionModule(user_id): not running, no collection thread, and an
\* EdgeProcessor that create_edge_processor has started already
InitCollect ==
    /\ collector = [running |-> FALSE, collection_thread |-> 0, connected |-> FALSE,
                    pc |-> "idle", returned |-> FALSE, left |-> MaxCollectCalls]
    /\ loops = <<>>
    /\ edge = [running |-> TRUE, thread |-> "check", data_queues |-> <<>>, put |-> 0,
               processed |-> <<>>]
    /\ now = 0
    /\ user \in BaseUsers
    /\ PredictorIdle
    /\ RunIdle /\ MutatorIdle /\ ScenarioIdle /\ rng = None /\ generated = None
    /\ ManagerIdle

LoopStep(t) == LoopCheck(t) \/ LoopIterate(t) \/ LoopWake(t)

NextCollect ==
    \/ Start
    \/ Stop
    \/ StopJoin
    \/ StopEdgeJoin
    \/ \E t \in DOMAIN loops : LoopCheck(t)
    \/ \E t \in DOMAIN loops : LoopIterate(t)
    \/ \E t \in DOMAIN loops : LoopWake(t)
    \/ WorkerCheck
    \/ WorkerGet

SpecCollect == InitCollect /\ [][NextCollect]_vars

\* the threads are scheduled fairly: each collection loop, the processing
\* thread and the caller inside stop() take their next step when they can
SpecCollectFair ==
    /\ SpecCollect
    /\ \A t \in 1..MaxCollectCalls : WF_vars(LoopStep(t))
    /\ WF_vars(WorkerCheck \/ WorkerGet)
    /\ WF_vars(StopJoin \/ StopEdgeJoin)

(***************************************************************************)
(* Properties of predict_life_expectancy                                   *)
(***************************************************************************)
FactorNames ==
    <<"Smoking", "BMI", "Blood Pressure", "Cholesterol", "Exercise", "Diet", "Sleep",
      "Alcohol", "Stress", "Social Connection", "Genetic Factors", "Biological Age">>

\* position of a factor in the returned list
FactorValue(name) ==
    life.factors[CHOOSE i \in 1..Len(life.factors) : life.factors[i][1] = name][2]

\* C1: the predicted life expectancy is the base (76.1 for a male, 81.1 for
\* anyone else) plus the sum of the returned factors, rounded to one decimal,
\* and the factors are the twelve adjustments in the documented order.
C1_PredictionIsBasePlusFactors ==
    life # None =>
        /\ Len(life.factors) = 12
        /\ \A i \in 1..12 : life.factors[i][1] = FactorNames[i]
        /\ life.base_life_expectancy =
              (IF user.user_profile.gender \in {"Male", "male"}
               THEN Tenths(761) ELSE Tenths(811))
        /\ life.predicted_life_expectancy =
              Round1(life.base_life_expectancy
                     + SumSeq([i \in 1..12 |-> life.factors[i][2]]))

\* the prediction for the at-risk record: 46.2 years from a base of 76.1
C1_Witness ==
    /\ life # None
    /\ user = AtRiskUser
    /\ life.base_life_expectancy = Tenths(761)
    /\ life.predicted_life_expectancy = Tenths(462)
    /\ FactorValue("Biological Age") # 0

\* C5: the hours term of the sleep adjustment (the Sleep factor less the
\* quality bonus) is a penalty: never positive below 7.5 hours, and zero from
\* 7.5 hours on.
C5_SleepDeficitIsPenalty ==
    life # None =>
        LET hours_term == FactorValue("Sleep") - SleepQualityTerm(user)
        IN  IF user.lifestyle_data.sleep.average_hours < Tenths(75)
            THEN hours_term <= 0
            ELSE hours_term = 0

\* the lookup entries of the stress labels and of the processed food labels
StressEntry ==
    [Low |-> Num(1), Moderate |-> 0, High |-> -Num(2)] @@ ("Very High" :> -Num(4))

ProcessedFoodEntry ==
    [Rarely |-> 0, Sometimes |-> -Tenths(8), Often |-> -Tenths(18)]
    @@ ("Very Frequently" :> -Num(3))

\* C7: a stress label and a processed food label in the form the generator
\* writes them select their own entry: the Stress factor is 1.0, 0, -2.0 or
\* -4.0, and the Diet factor holds 0, -0.8, -1.8 or -3.0 for the processed food.
C7_GeneratorLabelsHitTheirEntry ==
    life # None =>
        LET stress_level == user.lifestyle_data.stress_level
            diet == user.lifestyle_data.diet
        IN  /\ stress_level \in DOMAIN StressEntry =>
                  FactorValue("Stress") = StressEntry[stress_level]
            /\ diet.processed_food_frequency \in DOMAIN ProcessedFoodEntry =>
                  FactorValue("Diet") =
                      diet.fruit_veg_servings_daily * Tenths(4)
                      + (IF diet.type \in {"Mediterranean", "mediterranean"}
                         THEN Tenths(25) ELSE 0)
                      + ProcessedFoodEntry[diet.processed_food_frequency]

(***************************************************************************)
(* Properties of calculate_biological_age                                  *)
(***************************************************************************)
\* C2: the biological age that is returned is never below 20.
C2_BiologicalAgeAtLeast20 ==
    bioAge # None => bioAge.biological_age >= Num(20)

\* a record whose sum lies below 20 has been evaluated
C2_Witness ==
    /\ bioAge # None
    /\ BiologicalAgeSum(user) < Num(20)
    /\ bioAge.biological_age = Num(20)

\* the unweighted mean of the sub-factors of each domain
UnweightedMeans(u) ==
    <<(bp_age_factor(u) + hr_age_factor(u) + chol_age_factor(u)) \div 3,
      (glucose_age_factor(u) + hba1c_age_factor(u) + bmi_age_factor(u)) \div 3,
      (fitness_age_factor(u) + exercise_age_factor(u)) \div 2,
      (sleep_age_factor(u) + diet_age_factor(u) + stress_age_factor(u)) \div 3>>

\* chronological ages, for comparing the results of two of them: the first
\* and the last age of each bracket of the VO2 max reference table
Ages == {18, 29, 30, 39, 40, 49, 50, 59, 60, 90}

RiskNames == {"cardiovascular", "metabolic", "neurological", "cancer"}

\* C3: each of the four risk levels lies between 0 and 1.
C3_RiskLevelsInUnitInterval ==
    risks # None =>
        \A k \in RiskNames :
            /\ risks.risks[k].risk_level >= 0
            /\ risks.risks[k].risk_level <= Num(1)

\* a record whose protective diet would pull the neurological mean below 0
C3_Witness ==
    /\ risks # None
    /\ neuro_diet_risk_factor(user) < 0
    /\ neuro_genetic_risk(user) + sleep_risk_factor(user) + stress_risk_factor(user)
       + exercise_risk_factor(user) + neuro_diet_risk_factor(user) < 0
    /\ risks.risks.neurological.risk_level = 0

\* the values of the factor breakdown reported for a category
ReportedFactors(k) ==
    LET factors == risks.risks[k].factors
    IN  CASE k = "cardiovascular" ->
                <<factors.genetic, factors.blood_pressure, factors.cholesterol,
                  factors.smoking, factors.exercise, factors.bmi>>
          [] k = "metabolic" ->
                <<factors.genetic, factors.glucose, factors.bmi, factors.exercise,
                  factors.diet>>
          [] k = "neurological" ->
                <<factors.genetic, factors.sleep, factors.stress, factors.exercise,
                  factors.diet>>
          [] k = "cancer" ->
                <<factors.genetic, factors.smoking, factors.exercise, factors.diet>>

\* C27: for each of the four categories the mean of the reported factors is
\* the reported risk_level, to within the rounding to two decimals (0.01).
C27_BreakdownAveragesToRiskLevel ==
    risks # None =>
        \A k \in RiskNames :
            LET difference == Mean(ReportedFactors(k)) - risks.risks[k].risk_level
            IN  -Hundredths(1) <= difference /\ difference <= Hundredths(1)

\* C28: for each of the four categories the reported category is
\* _categorize_risk of the reported two-decimal risk_level.
C28_CategoryAgreesWithRiskLevel ==
    risks # None =>
        \A k \in RiskNames :
            risks.risks[k].category = _categorize_risk(risks.risks[k].risk_level)

\* C4: the category is a step function of the risk with the cut points 0.15,
\* 0.35 and 0.60, and a risk at a cut point belongs to the higher category.
C4_CategoryIsStepFunction ==
    catOut # None =>
        /\ riskIn < Hundredths(15) => catOut.category = "Low"
        /\ (Hundredths(15) <= riskIn /\ riskIn < Hundredths(35)) =>
              catOut.category = "Moderate"
        /\ (Hundredths(35) <= riskIn /\ riskIn < Hundredths(60)) =>
              catOut.category = "High"
        /\ Hundredths(60) <= riskIn => catOut.category = "Very High"

\* the cut point 0.35 has been categorized
C4_Witness ==
    /\ catOut # None
    /\ riskIn = Hundredths(35)
    /\ catOut.category = "High"

(***************************************************************************)
(* Properties of generate_recommendations                                  *)
(***************************************************************************)
\* the end-to-end record: its fixed fields, whatever the other fields hold
IsEndToEndProfile(u) ==
    /\ u.user_profile.gender = "Male"
    /\ u.user_profile.age = 50
    /\ u.user_profile.bmi = Num(31)
    /\ u.user_profile.smoking_status = "Current"
    /\ u.health_metrics.blood_pressure = [systolic |-> Num(145), diastolic |-> Num(92)]
    /\ u.health_metrics.cholesterol.total = Num(240)
    /\ u.health_metrics.cholesterol.hdl = Num(35)
    /\ u.health_metrics.cholesterol.ldl = Num(170)
    /\ u.health_metrics.fasting_glucose = Num(110)
    /\ u.health_metrics.hba1c = Tenths(61)
    /\ u.lifestyle_data.exercise.minutes_per_week = 20
    /\ u.lifestyle_data.sleep.average_hours = Tenths(55)
    /\ u.lifestyle_data.stress_level = "High"

HasQuitSmokingEntry ==
    \E i \in 1..Len(recs.recommendations.lifestyle) :
        /\ recs.recommendations.lifestyle[i] = RecQuitSmoking
        /\ recs.recommendations.lifestyle[i].priority = "Very High"

\* C6 as it is written: for the end-to-end record the cardiovascular and the
\* metabolic risk are both High or Very High, and the lifestyle list holds a
\* Very High smoking cessation entry.
C6_EndToEndAsWritten ==
    (recs # None /\ IsEndToEndProfile(user)) =>
        /\ risks.risks.cardiovascular.category \in HighOrVeryHigh
        /\ risks.risks.metabolic.category \in HighOrVeryHigh
        /\ HasQuitSmokingEntry

\* C6: for the end-to-end record the cardiovascular and the metabolic risk are
\* each Moderate or High, never Low and never Very High, and the lifestyle list
\* holds a Very High smoking cessation entry.
C6_EndToEndModerateOrHigh ==
    (recs # None /\ IsEndToEndProfile(user)) =>
        /\ risks.risks.cardiovascular.category \in {"Moderate", "High"}
        /\ risks.risks.metabolic.category \in {"Moderate", "High"}
        /\ HasQuitSmokingEntry

\* the end-to-end record with a genetic cardiovascular risk of 0.3: Moderate
C6_Witness ==
    /\ recs # None
    /\ IsEndToEndProfile(user)
    /\ user.genetic_data.risk_factors.cardiovascular_disease = Tenths(3)
    /\ risks.risks.cardiovascular.category = "Moderate"
    /\ HasQuitSmokingEntry

\* the record with every categorical field in lower case
LowerCased(u) ==
    [u EXCEPT !.user_profile.gender = Lower(@),
              !.user_profile.smoking_status = Lower(@),
              !.user_profile.alcohol_frequency = Lower(@),
              !.lifestyle_data.sleep.quality = Lower(@),
              !.lifestyle_data.diet.type = Lower(@),
              !.lifestyle_data.diet.processed_food_frequency = Lower(@),
              !.lifestyle_data.stress_level = Lower(@),
              !.lifestyle_data.exercise.types =
                  [i \in 1..Len(@) |-> Lower(@[i])]]

\* C8: the recommendations do not depend on the case of the categorical
\* fields: a record yields the lists that its lower-case form yields, so that
\* "Often" and "Very Frequently" bring the processed food entry as "often" and
\* "very frequently" do.
C8_RecommendationsIgnoreCase ==
    recs # None =>
        recs.recommendations =
            generate_recommendations(
                LowerCased(user),
                predict_life_expectancy(LowerCased(user), now),
                calculate_health_risks(LowerCased(user), now),
                now).recommendations

\* C9 as it is written: a second call with the same inputs returns what the
\* first call returned, in every field.
C9_SecondCallIdentical ==
    prevRecs # None => recs = prevRecs

\* C9: a second call with the same inputs returns what the first call
\* returned in every field but generated_at, the reading of the clock.
C9_SecondCallIdenticalButStamp ==
    prevRecs # None =>
        /\ DOMAIN recs = DOMAIN prevRecs
        /\ \A f \in DOMAIN recs \ {"generated_at"} : recs[f] = prevRecs[f]

\* two calls whose readings of the clock differ
C9_Witness ==
    /\ prevRecs # None
    /\ recs # None
    /\ recs.generated_at # prevRecs.generated_at
    /\ recs.recommendations = prevRecs.recommendations

\* where an entry of top_priorities was met by the loops
CategoryIndex(category) ==
    CHOOSE k \in 1..Len(CategoryOrder) : CategoryOrder[k] = category

IndexInCategory(x) ==
    CHOOSE i \in 1..Len(recs.recommendations[x.category]) :
        recs.recommendations[x.category][i] =
            [priority |-> x.priority, recommendation |-> x.recommendation,
             impact |-> x.impact]

MetBefore(x, y) ==
    \/ CategoryIndex(x.category) < CategoryIndex(y.category)
    \/ /\ x.category = y.category
       /\ IndexInCategory(x) < IndexInCategory(y)

\* C10: top_priorities holds the High and Very High entries of the six
\* categories and nothing else, each once, every Very High entry before every
\* High entry, and entries of one priority in the order the loops met them.
C10_TopPrioritiesFilteredAndStable ==
    recs # None =>
        LET top == recs.top_priorities
        IN  /\ \A i \in 1..Len(top) :
                  /\ top[i].category \in {CategoryOrder[k] : k \in 1..Len(CategoryOrder)}
                  /\ top[i].priority \in HighOrVeryHigh
                  /\ \E j \in 1..Len(recs.recommendations[top[i].category]) :
                        recs.recommendations[top[i].category][j] =
                            [priority |-> top[i].priority,
                             recommendation |-> top[i].recommendation,
                             impact |-> top[i].impact]
            /\ \A k \in 1..Len(CategoryOrder) :
                  \A j \in 1..Len(recs.recommendations[CategoryOrder[k]]) :
                      LET rec == recs.recommendations[CategoryOrder[k]][j]
                          copies ==
                              {i \in 1..Len(top) :
                                  top[i] = [category |-> CategoryOrder[k],
                                            recommendation |-> rec.recommendation,
                                            priority |-> rec.priority,
                                            impact |-> rec.impact]}
                      IN  Cardinality(copies) =
                              (IF rec.priority \in HighOrVeryHigh THEN 1 ELSE 0)
            /\ \A i, j \in 1..Len(top) :
                  i < j =>
                      /\ ~(top[i].priority = "High" /\ top[j].priority = "Very High")
                      /\ top[i].priority = top[j].priority => MetBefore(top[i], top[j])

\* the Very High entry of the last category stands before High entries of
\* earlier categories, which keep their order
C10_Witness ==
    /\ recs # None
    /\ Len(recs.top_priorities) >= 4
    /\ recs.top_priorities[1].priority = "Very High"
    /\ recs.top_priorities[1].category = "lifestyle"
    /\ recs.top_priorities[2].priority = "High"
    /\ recs.top_priorities[2].category = "exercise"
    /\ recs.top_priorities[3].priority = "High"
    /\ recs.top_priorities[3].category = "exercise"

\* C11: potential_years_gained is min(0.8 * n, 8.0) for n the number of High
\* and Very High entries, the length of top_priorities, and
\* potential_life_expectancy is the predicted life expectancy plus that gain.
C11_ImpactIsCappedCount ==
    recs # None =>
        LET n == Len(recs.top_priorities)
            impact == recs.potential_impact
        IN  /\ impact.potential_years_gained = Min(n * Tenths(8), Num(8))
            /\ impact.current_life_expectancy = life.predicted_life_expectancy
            /\ impact.potential_life_expectancy =
                  life.predicted_life_expectancy + impact.potential_years_gained

\* the at-risk record: seven entries, one of them Very High, 5.6 years
C11_Witness ==
    /\ recs # None
    /\ Len(recs.top_priorities) = 7
    /\ recs.top_priorities[1].priority = "Very High"
    /\ recs.potential_impact.potential_years_gained = Tenths(56)

(***************************************************************************)
(* Properties of run_complete_analysis                                     *)
(***************************************************************************)
\* C12: whatever the mapping lacks, run_complete_analysis returns a result
\* whose status is success or error, with an error_message when it is error;
\* no exception leaves it.
C12_AnalysisNeverRaises ==
    analysis # None =>
        /\ "status" \in DOMAIN analysis
        /\ analysis.status \in {"success", "error"}
        /\ analysis.status = "error" => "error_message" \in DOMAIN analysis

\* the vocabulary of each categorical input, in the lower case of the lookups
Vocabulary ==
    [smoking_status |-> {"never", "former", "current"},
     alcohol_frequency |-> {"none", "rare", "moderate", "frequent"},
     stress_level |-> {"low", "moderate", "high", "very high"},
     quality |-> {"poor", "fair", "good", "excellent"},
     processed_food_frequency |-> {"rarely", "sometimes", "often", "very frequently"}]

HasUnlistedLabel(u) ==
    \E i \in 1..Len(LookupFields) :
        Lower(GetField(u, LookupFields[i])) \notin Vocabulary[LookupFields[i]]

\* C13: a categorical input outside its vocabulary makes the computation fail
\* with an error; no prediction is returned for it.
C13_UnlistedLabelFails ==
    (analysis # None /\ absent = {} /\ HasUnlistedLabel(user)) =>
        /\ "status" \in DOMAIN analysis
        /\ analysis.status = "error"

(***************************************************************************)
(* Properties of the scenario functions                                    *)
(***************************************************************************)
LastApplied == applied[Len(applied)]

\* C14: quit_smoking applied to a Current record gives the status Former, a
\* strictly lower resting heart rate and a strictly higher vo2_max.
C14_QuitSmokingImproves ==
    (applied # <<>> /\ LastApplied = "quit_smoking"
        /\ before.data.user_profile.smoking_status = "Current") =>
        /\ user.user_profile.smoking_status = "Former"
        /\ user.health_metrics.resting_heart_rate
              < before.data.health_metrics.resting_heart_rate
        /\ user.health_metrics.vo2_max > before.data.health_metrics.vo2_max

\* C15: quit_smoking leaves every field of a record alone whose status is not
\* Current (Never, Former).
C15_QuitSmokingNoOp ==
    (applied # <<>> /\ LastApplied = "quit_smoking"
        /\ Lower(before.data.user_profile.smoking_status) # "current") =>
        /\ user = before.data
        /\ rng = before.rng

C15_Witness ==
    /\ applied = <<"exercise_program", "quit_smoking">>
    /\ before.data.user_profile.smoking_status = "Former"
    /\ user = before.data

\* C17: optimal_lifestyle gives what improved_diet, exercise_program,
\* stress_reduction, sleep_optimization and quit_smoking give when applied in
\* that order on the same draws, followed by the synergy adjustments; after it
\* the status is not Current and the alcohol frequency is not Frequent.
C17_OptimalIsComposition ==
    (applied # <<>> /\ LastApplied = "optimal_lifestyle") =>
        LET diet == _apply_improved_diet_scenario(before.data, before.rng)
            exercise == _apply_exercise_program_scenario(diet.data, diet.rng)
            stress == _apply_stress_reduction_scenario(exercise.data, exercise.rng)
            sleep == _apply_sleep_optimization_scenario(stress.data, stress.rng)
            quit == _apply_quit_smoking_scenario(sleep.data, sleep.rng)
            synergy == SynergyAdjustments(quit.data, quit.rng)
        IN  /\ user = synergy.data
            /\ rng = synergy.rng
            /\ user.user_profile.smoking_status # "Current"
            /\ user.user_profile.alcohol_frequency # "Frequent"

C17_Witness ==
    /\ applied = <<"optimal_lifestyle">>
    /\ before.data.user_profile.smoking_status = "Current"
    /\ before.data.user_profile.alcohol_frequency = "Frequent"
    /\ user.user_profile.smoking_status = "Former"
    /\ user.user_profile.alcohol_frequency = "Moderate"

\* C19: once exercise_program has been applied the resting heart rate is at
\* least 55, whatever scenario functions follow.
C19_HeartRateFloorKept ==
    (\E i \in 1..Len(applied) : applied[i] = "exercise_program") =>
        user.health_metrics.resting_heart_rate >= Num(55)

C19_Witness ==
    /\ applied = <<"exercise_program", "improved_diet", "quit_smoking">>
    /\ user.user_profile.smoking_status = "Never"
    /\ user.health_metrics.resting_heart_rate = Num(55)

\* C25: exercise_program never lowers minutes_per_week: the new value is at
\* least the old one, at least 150 when the old one was below 150, and at
\* least the smaller of 300 and one and a half times the old one otherwise.
C25_ExerciseMinutesNeverDecrease ==
    (applied # <<>> /\ LastApplied = "exercise_program") =>
        LET current_minutes == before.data.lifestyle_data.exercise.minutes_per_week
            new_minutes == user.lifestyle_data.exercise.minutes_per_week
        IN  /\ new_minutes >= current_minutes
            /\ current_minutes < 150 => new_minutes >= 150
            /\ current_minutes >= 150 => 2 * new_minutes >= Min(600, 3 * current_minutes)

\* C26: optimal_lifestyle applied to a record whose estimated biological age
\* is above the chronological age leaves it between the chronological age
\* and its previous value.
C26_BiologicalAgeNotBelowChronological ==
    (applied # <<>> /\ LastApplied = "optimal_lifestyle"
        /\ before.data.impedance_data.estimated_biological_age
              > Num(before.data.impedance_data.chronological_age)) =>
        /\ Num(user.impedance_data.chronological_age)
              <= user.impedance_data.estimated_biological_age
        /\ user.impedance_data.estimated_biological_age
              <= before.data.impedance_data.estimated_biological_age

(***************************************************************************)
(* Properties of run_scenario_simulation                                   *)
(***************************************************************************)
\* C16: the scenario function writes to a deep copy only: original_data is
\* the stored record in every field, nested mappings and the list of exercise
\* types included, no section object is shared between the two records, and
\* scenario_data is what the scenario function makes of the stored record.
C16_OriginalUntouched ==
    scenarioOut # None =>
        /\ scenarioOut.original_data = user
        /\ \A i \in 1..Len(Sections) :
              heap.objects[heap.original[Sections[i]]] = user[Sections[i]]
        /\ \A i, j \in 1..Len(Sections) :
              heap.original[Sections[i]] # heap.scenario[Sections[j]]
        /\ scenarioOut.scenario_data =
              ApplyScenario(scenarioOut.scenario, before.data, before.rng).data

C16_Witness ==
    /\ scenarioOut # None
    /\ scenarioOut.scenario = "exercise_program"
    /\ scenarioOut.original_data = user
    /\ scenarioOut.original_data.lifestyle_data.exercise.types = <<>>
    /\ Len(scenarioOut.scenario_data.lifestyle_data.exercise.types) = 3
    /\ scenarioOut.scenario_data.health_metrics.blood_pressure
          # scenarioOut.original_data.health_metrics.blood_pressure

\* the analysis with its readings of the clock blanked
WithoutStamps(a) ==
    [a EXCEPT !.life_expectancy.predicted_at = 0,
              !.biological_age.calculated_at = 0,
              !.health_risks.assessed_at = 0,
              !.recommendations.generated_at = 0,
              !.analysis_completed_at = 0]

SameScenarioTwice ==
    /\ prevScenarioOut # None
    /\ heap.config.random_seed # None
    /\ scenarioOut.scenario = prevScenarioOut.scenario

\* C18 as stated: with a seed configured, two runs of the same scenario on
\* the same stored record give equal scenario_data and equal analyses.
C18_RunsIdentical ==
    SameScenarioTwice =>
        /\ scenarioOut.scenario_data = prevScenarioOut.scenario_data
        /\ scenarioOut.scenario_analysis = prevScenarioOut.scenario_analysis

\* C18: when the program is started anew with the same seed before each
\* run, two runs of the same scenario on the same stored record give equal
\* scenario_data and analyses equal in all but their readings of the clock.
C18_RestartedRunsIdenticalButStamps ==
    (SameScenarioTwice /\ Len(applied) = 4 /\ applied[3] = "construct") =>
        /\ scenarioOut.scenario_data = prevScenarioOut.scenario_data
        /\ WithoutStamps(scenarioOut.scenario_analysis)
              = WithoutStamps(prevScenarioOut.scenario_analysis)

C18_Witness ==
    /\ SameScenarioTwice
    /\ applied = <<"construct", "optimal_lifestyle", "construct", "optimal_lifestyle">>
    /\ scenarioOut.scenario_data = prevScenarioOut.scenario_data
    /\ scenarioOut.scenario_data # scenarioOut.original_data
    /\ scenarioOut.scenario_analysis.status = "success"
    /\ scenarioOut.scenario_analysis # prevScenarioOut.scenario_analysis

(***************************************************************************)
(* Properties of generate_health_metrics                                   *)
(***************************************************************************)
\* C20: whatever the draws, the generated HDL value is above 0, so that
\* total / hdl is defined.
C20_GeneratedHdlPositive ==
    generated # None => generated.cholesterol.hdl > 0

(***************************************************************************)
(* Properties of ModelManager                                              *)
(***************************************************************************)
\* C21: with max_loaded_models >= 1 and one thread making the calls,
\* self.models never holds more than max_loaded_models models, neither
\* between two calls nor inside one.
C21_LoadedModelsBounded ==
    (manager.max_loaded_models >= 1 /\ Len(calls) = 1) =>
        Len(manager.models) <= manager.max_loaded_models

\* a load_model call has made room at the limit and added its model
C21_Witness ==
    /\ Len(calls) = 1
    /\ calls[1].op = "load_model"
    /\ calls[1].pc = "done"
    /\ calls[1].returned = "model"
    /\ Len(calls[1].before) = manager.max_loaded_models
    /\ ~Has(calls[1].before, calls[1].model_id)
    /\ Len(manager.models) = manager.max_loaded_models
    /\ Has(manager.models, calls[1].model_id)

\* C22: with several threads in load_model and unload_model, self.models
\* never holds more than max_loaded_models models, and no call ends in a
\* KeyError for an entry that another thread removed after the call had
\* found it.
C22_LockGuardsBookkeeping ==
    /\ Len(manager.models) <= manager.max_loaded_models
    /\ \A t \in DOMAIN calls : calls[t].raised # "KeyError"

\* the keys of a dict, as a set
KeySet(models) == {models[i].model_id : i \in DOMAIN models}

\* the last_used stamp of the model held under a key
StampOf(models, model_id) == Lookup(models, model_id).last_used

\* the single thread has returned from load_model(model_id) for a model that
\* was not in self.models, with max_loaded_models models loaded at the call
LoadedAtLimit ==
    /\ Len(calls) = 1
    /\ calls[1].op = "load_model"
    /\ calls[1].pc = "done"
    /\ get_model_info(calls[1].model_id)
    /\ ~Has(calls[1].before, calls[1].model_id)
    /\ Len(calls[1].before) = manager.max_loaded_models

\* the single thread has returned from load_model(model_id) for a model that
\* was in self.models
LoadedAgain ==
    /\ Len(calls) = 1
    /\ calls[1].op = "load_model"
    /\ calls[1].pc = "done"
    /\ Has(calls[1].before, calls[1].model_id)

\* C23: load_model at the limit unloads exactly one model, one whose
\* last_used stamp was the oldest, and leaves every other model as it was;
\* load_model of a loaded model unloads nothing and gives that model the
\* newest stamp.
C23_EvictionIsLeastRecentlyUsed ==
    /\ LoadedAtLimit =>
          \E victim \in KeySet(calls[1].before) :
             /\ \A other \in KeySet(calls[1].before) :
                   StampOf(calls[1].before, victim) <= StampOf(calls[1].before, other)
             /\ KeySet(manager.models)
                   = (KeySet(calls[1].before) \ {victim}) \cup {calls[1].model_id}
             /\ \A other \in KeySet(calls[1].before) \ {victim} :
                   Lookup(manager.models, other) = Lookup(calls[1].before, other)
    /\ LoadedAgain =>
          /\ Keys(manager.models) = Keys(calls[1].before)
          /\ \A other \in KeySet(manager.models) :
                /\ StampOf(manager.models, other) <= StampOf(manager.models, calls[1].model_id)
                /\ other # calls[1].model_id =>
                      Lookup(manager.models, other) = Lookup(calls[1].before, other)

\* the model unloaded at the limit was not the one loaded first: it had been
\* used since
C23_Witness ==
    /\ LoadedAtLimit
    /\ manager.max_loaded_models = 2
    /\ Has(manager.models, calls[1].before[1].model_id)
    /\ ~Has(manager.models, calls[1].before[2].model_id)
    /\ StampOf(calls[1].before, calls[1].before[2].model_id)
          < StampOf(calls[1].before, calls[1].before[1].model_id)


(***************************************************************************)
(* Properties of DataCollectionModule.start and stop                       *)
(***************************************************************************)
\* C29: after any sequence of start() and stop() calls at most one
\* _collection_loop thread executes collection iterations: a thread inside
\* an iteration is the thread of the latest start(), never one that an
\* earlier start() created.
C29_OneCollectionLoop ==
    \A t \in DOMAIN loops : loops[t] = "iterate" => t = collector.collection_thread

\* C30: while data collection is running, after any sequence of start()
\* and stop() calls, every sensor reading the loop has handed to
\* edge_processor.process_data is eventually taken from the queue and run
\* through the pipeline, the threads being scheduled fairly.  A reading
\* that is still queued when collection is stopped is not held against the
\* property: it asks for the reading to be processed unless collection
\* stops first.
C30_ReadingsEventuallyProcessed ==
    \A k \in 1..MaxReadings :
        (collector.running /\ edge.put >= k)
            ~> (Len(edge.processed) >= k \/ ~collector.running)

====
